---------------------------- MODULE Spec2Model ----------------------------
(***************************************************************************)
(* Secure command execution gateway of the OpenStudio MCP server           *)
(* (src/src/utils/exec.ts): argument escaper, path confiner, result cache, *)
(* execution engine and operation facade.                                  *)
(* With it: the simulation jobs of the REST router                         *)
(* (src/src/routes/simulations.ts), the application that starts and stops  *)
(* the two servers (src/src/index.ts), the retry helper                    *)
(* (src/unnamed/part_006) and the parser of building descriptions          *)
(* (src/unnamed/part_007).                                                 *)
(*                                                                         *)
(* JavaScript strings are modelled as sequences of one-character strings,  *)
(* so that startsWith, concatenation and replace are computed on the       *)
(* characters, as the code computes them.                                  *)
(***************************************************************************)
EXTENDS Integers, Sequences, FiniteSets, TLC

VARIABLES
    inputPath,      \* validateAndResolvePath: parameter inputPath
    basePath,       \* validateAndResolvePath: parameter basePath
    confined,       \* validateAndResolvePath: outcome (returned path or thrown AppError)
    arg,            \* escapeArgument: parameter arg
    token,          \* escapeArgument: returned token
    built,          \* executeOpenStudioCommand: its args and the command it built
    timeoutOption,  \* executeCommand: options.timeout
    timeoutDefault, \* process.env.TIMEOUT_DEFAULT
    spawnTimeout,   \* the timeout executeCommand passes to execPromise
    commandCache,   \* the Map commandCache, as the sequence of its entries in iteration order
    now,            \* Date.now(), in milliseconds
    ticks,          \* how often the clock has advanced
    calls,          \* the executeCommand calls: parameters, position and returned value
    nextCall,       \* the next call to start
    spawns,         \* how many processes execPromise has spawned
    lastSettled,    \* the call whose result was stored in the cache last (0: none)
    request,        \* the facade operation called and its parameters
    fpc,            \* the statement of the facade operation to run next
    locals,         \* the confined paths the operation holds (safeModelPath, ...)
    trace,          \* what the operation has done: confinements, filesystem calls, spawns
    returned,       \* what the operation returned or threw
    simulationJobs, \* routes/simulations.ts: the Map simulationJobs, by job id
    runners,        \* the runSimulation of each job: position, captured job, loop variable
    nextJobId,      \* the next job id uuidv4 hands out
    response,       \* the response to the last request of the simulations router
    app,            \* OpenStudioApplication and its two servers
    retrying,       \* retry: parameters, attempts made, sleeps made, settlement
    description,    \* parseBuildingDescription: parameter description
    parsed          \* parseBuildingDescription: returned record or thrown error

pathVars == <<inputPath, basePath, confined>>
escVars  == <<arg, token, built>>
execVars == <<commandCache, now, ticks, calls, nextCall, spawns, lastSettled>>
facadeVars == <<request, fpc, locals, trace, returned>>
timeoutVars == <<timeoutOption, timeoutDefault, spawnTimeout>>
jobVars  == <<simulationJobs, runners, nextJobId, response>>
nlpVars  == <<description, parsed>>
serviceVars == <<jobVars, app, retrying, nlpVars>>
vars     == <<pathVars, escVars, execVars, facadeVars, timeoutVars, serviceVars>>

\* A value not yet computed.
None == [ok |-> FALSE, none |-> TRUE]

(***************************************************************************)
(* Strings                                                                 *)
(***************************************************************************)

\* All strings over the characters cs of length at most n.
StringsUpTo(cs, n) == UNION {[1..k -> cs] : k \in 0..n}

\* String.prototype.startsWith
StartsWith(s, prefix) ==
    /\ Len(prefix) <= Len(s)
    /\ SubSeq(s, 1, Len(prefix)) = prefix

\* The decimal digits of a natural number.
DigitChars == <<"0", "1", "2", "3", "4", "5", "6", "7", "8", "9">>
RECURSIVE Decimal(_)
Decimal(n) ==
    IF n < 10 THEN <<DigitChars[n + 1]>>
    ELSE Decimal(n \div 10) \o <<DigitChars[(n % 10) + 1]>>

(***************************************************************************)
(* Path Confiner: path.isAbsolute, path.resolve (POSIX) and                *)
(* validateAndResolvePath                                                  *)
(***************************************************************************)

\* process.cwd(): the directory relative base paths are resolved against.
Cwd == <<"/", "e">>

\* path.isAbsolute (POSIX): a non-empty path beginning with the separator.
IsAbsolute(p) == Len(p) > 0 /\ p[1] = "/"

\* The segments of a path string between separators (empty segments included).
RECURSIVE SplitFrom(_, _, _, _)
SplitFrom(p, i, cur, acc) ==
    IF i > Len(p) THEN Append(acc, cur)
    ELSE IF p[i] = "/" THEN SplitFrom(p, i + 1, <<>>, Append(acc, cur))
    ELSE SplitFrom(p, i + 1, Append(cur, p[i]), acc)

Split(p) == SplitFrom(p, 1, <<>>, <<>>)

\* normalizeString of path.resolve: drop empty and "." segments, let ".."
\* remove the segment before it (and nothing at the root).
RECURSIVE NormalizeFrom(_, _, _)
NormalizeFrom(segs, i, acc) ==
    IF i > Len(segs) THEN acc
    ELSE IF segs[i] = <<>> \/ segs[i] = <<".">> THEN NormalizeFrom(segs, i + 1, acc)
    ELSE IF segs[i] = <<".", ".">>
         THEN NormalizeFrom(segs, i + 1,
                            IF Len(acc) = 0 THEN acc ELSE SubSeq(acc, 1, Len(acc) - 1))
    ELSE NormalizeFrom(segs, i + 1, Append(acc, segs[i]))

Normalize(segs) == NormalizeFrom(segs, 1, <<>>)

\* The canonical absolute path string of a list of segments.
RECURSIVE RenderFrom(_, _)
RenderFrom(segs, i) ==
    IF i > Len(segs) THEN <<>>
    ELSE <<"/">> \o segs[i] \o RenderFrom(segs, i + 1)

Render(segs) == IF Len(segs) = 0 THEN <<"/">> ELSE RenderFrom(segs, 1)

\* path.resolve(...paths): from right to left, prepend each non-empty path
\* until an absolute one is met; fall back on the working directory.
RECURSIVE ResolveFrom(_, _, _)
ResolveFrom(paths, i, acc) ==
    IF IsAbsolute(acc) THEN acc
    ELSE IF i = 0 THEN Cwd \o <<"/">> \o acc
    ELSE IF Len(paths[i]) = 0 THEN ResolveFrom(paths, i - 1, acc)
    ELSE ResolveFrom(paths, i - 1, paths[i] \o <<"/">> \o acc)

Resolve(paths) == Render(Normalize(Split(ResolveFrom(paths, Len(paths), <<>>))))

\* The thrown AppError of validateAndResolvePath.
PathTraversalError(p) ==
    [ok      |-> FALSE,
     none    |-> FALSE,
     code    |-> "PATH_TRAVERSAL",
     status  |-> 400,
     message |-> <<"Path traversal attempt detected: ">> \o p]

\* Fault injection: a containment test that wants the separator after the
\* base, and so refuses the base itself.
IsWithinBaseStrict(resolvedPath, resolvedBasePath) ==
    StartsWith(resolvedPath, resolvedBasePath \o <<"/">>)

\* The containment test of validateAndResolvePath (exec.ts line 100).
IsWithinBase(resolvedPath, resolvedBasePath) ==
    StartsWith(resolvedPath, resolvedBasePath)

\* Fault injection: the candidate joined to the base even when it is
\* absolute (path.join in place of path.resolve).
ResolvedInputJoining(p, base) == Resolve(<<base \o <<"/">> \o p>>)

\* Lines 87-94: path.resolve(inputPath) for an absolute candidate,
\* path.resolve(basePath, inputPath) otherwise.
ResolvedInput(p, base) ==
    IF IsAbsolute(p) THEN Resolve(<<p>>) ELSE Resolve(<<base, p>>)

\* Fault injection: a confiner that answers a violation with the base
\* directory instead of throwing.
validateAndResolvePathClamping(p, base) ==
    LET resolvedPath     == ResolvedInput(p, base)
        resolvedBasePath == Resolve(<<base>>)
    IN  [ok |-> TRUE, none |-> FALSE,
         path |-> IF ~IsWithinBase(resolvedPath, resolvedBasePath)
                  THEN resolvedBasePath ELSE resolvedPath]

validateAndResolvePath(p, base) ==
    LET resolvedPath     == ResolvedInput(p, base)
        resolvedBasePath == Resolve(<<base>>)
    IN  IF ~IsWithinBase(resolvedPath, resolvedBasePath)
        THEN PathTraversalError(p)
        ELSE [ok |-> TRUE, none |-> FALSE, path |-> resolvedPath]

(***************************************************************************)
(* Argument Escaper: escapeArgument                                        *)
(***************************************************************************)

\* The JavaScript values null and undefined, and a string value.
JsNull      == [tag |-> "null", str |-> <<>>]
JsUndefined == [tag |-> "undefined", str |-> <<>>]
JsString(s) == [tag |-> "string", str |-> s]

\* A number: an integer n, n tenths, n times ten to the 21st, n times ten to
\* the minus 7th, or one of NaN, Infinity and -Infinity; and a boolean.
JsNumber(kind, n) == [tag |-> "number", str |-> <<>>, kind |-> kind, num |-> n]
JsBoolean(b)      == [tag |-> "boolean", str |-> <<>>, bool |-> b]

Abs(n) == IF n < 0 THEN 0 - n ELSE n
Sign(n) == IF n < 0 THEN <<"-">> ELSE <<>>

\* Number::toString(10) for these numbers.
NumberToString(kind, n) ==
    CASE kind = "integer"   -> Sign(n) \o Decimal(Abs(n))
      [] kind = "tenths"    ->
            IF n % 10 = 0 THEN Sign(n) \o Decimal(Abs(n) \div 10)
            ELSE Sign(n) \o Decimal(Abs(n) \div 10) \o <<".">> \o Decimal(Abs(n) % 10)
      [] kind = "e21"       ->
            IF n = 0 THEN <<"0">> ELSE Sign(n) \o Decimal(Abs(n)) \o <<"e", "+", "2", "1">>
      [] kind = "e-7"       ->
            IF n = 0 THEN <<"0">> ELSE Sign(n) \o Decimal(Abs(n)) \o <<"e", "-", "7">>
      [] kind = "NaN"       -> <<"N", "a", "N">>
      [] kind = "Infinity"  -> <<"I", "n", "f", "i", "n", "i", "t", "y">>
      [] kind = "-Infinity" -> <<"-", "I", "n", "f", "i", "n", "i", "t", "y">>

\* String(arg) for the values modelled.
StringOf(a) ==
    CASE a.tag = "string"    -> a.str
      [] a.tag = "number"    -> NumberToString(a.kind, a.num)
      [] a.tag = "boolean"   -> IF a.bool THEN <<"t", "r", "u", "e">>
                                ELSE <<"f", "a", "l", "s", "e">>
      [] a.tag = "null"      -> <<"n", "u", "l", "l">>
      [] a.tag = "undefined" -> <<"u", "n", "d", "e", "f", "i", "n", "e", "d">>

\* The backtick character (U+0060), which a TLA+ string cannot hold.
Backtick == "<backtick>"

\* The character class of the first test of line 71 and of the replace of
\* line 73: backslash, dollar, backtick, ! # & ' * ; < > ? [ ] ^ { | } and
\* the double quote.
SpecialChars ==
    {"\\", "$", Backtick, "!", "#", "&", "'", "*", ";", "<", ">", "?", "[", "]",
     "^", "{", "|", "}", "\""}

\* The characters /\s/ matches (those of them a TLA+ string can hold).
WhitespaceChars == {" ", "\t", "\n", "\r", "\f"}

\* Fault injection: an escaper that quotes every argument.
NeedsQuotingAlways(s) == TRUE

\* Line 71: does the argument have to be quoted.
NeedsQuoting(s) ==
    \/ \E i \in 1..Len(s) : s[i] \in SpecialChars
    \/ \E i \in 1..Len(s) : s[i] \in WhitespaceChars

\* Fault injection: a replace() that leaves the backslash alone.
ReplacedCharsNoBackslash == SpecialChars \ {"\\"}

\* The characters replace() of line 73 prefixes with a backslash.
ReplacedChars == SpecialChars

\* argStr.replace(/([...])/g, '\\$1')
RECURSIVE EscapeFrom(_, _)
EscapeFrom(s, i) ==
    IF i > Len(s) THEN <<>>
    ELSE (IF s[i] \in ReplacedChars THEN <<"\\", s[i]>> ELSE <<s[i]>>)
         \o EscapeFrom(s, i + 1)

\* Fault injection: an escaper without the test for null and undefined.
escapeArgumentStringifyingNull(a) ==
    LET argStr == StringOf(a)
    IN  IF NeedsQuoting(argStr)
        THEN <<"\"">> \o EscapeFrom(argStr, 1) \o <<"\"">>
        ELSE argStr

escapeArgument(a) ==
    IF a.tag = "null" \/ a.tag = "undefined" THEN <<>>
    ELSE LET argStr == StringOf(a)
         IN  IF NeedsQuoting(argStr)
             THEN <<"\"">> \o EscapeFrom(argStr, 1) \o <<"\"">>
             ELSE argStr

(***************************************************************************)
(* JavaScript values of mixed type (the code field of a result)            *)
(***************************************************************************)

JsNum(n)  == [t |-> "number", v |-> n]
JsStr(x)  == [t |-> "string", v |-> x]
JsNullV   == [t |-> "null", v |-> 0]
JsUndefV  == [t |-> "undefined", v |-> 0]
JsNaN     == [t |-> "NaN", v |-> 0]

\* ToBoolean on these values.
Truthy(x) ==
    /\ x.t \notin {"null", "undefined", "NaN"}
    /\ ~(x.t = "number" /\ x.v = 0)
    /\ ~(x.t = "string" /\ x.v = "")

\* a || b on these values, and on texts (a text is a sequence of pieces,
\* the empty text being the empty string).
JsOr(a, b)   == IF Truthy(a) THEN a ELSE b
TextOr(a, b) == IF a # <<>> THEN a ELSE b

(***************************************************************************)
(* The timeout of a spawn (executeCommand, line 147)                       *)
(***************************************************************************)

\* An environment variable: unset, or set to a string.
EnvUnset    == [set |-> FALSE, str |-> <<>>]
EnvSet(str) == [set |-> TRUE, str |-> str]

\* process.env.X || fallback
EnvOr(env, fallback) == IF env.set /\ env.str # <<>> THEN env.str ELSE fallback

DigitValue(c) == CHOOSE d \in 0..9 : DigitChars[d + 1] = c
IsDigit(c) == \E d \in 0..9 : DigitChars[d + 1] = c

\* parseInt(s, 10): leading whitespace is skipped, a sign is read, then
\* the digits up to the first character that is none; NaN without a digit.
RECURSIVE SkipWhitespace(_, _)
SkipWhitespace(s, i) ==
    IF i <= Len(s) /\ s[i] \in {" ", "\t", "\n", "\r", "\f"}
    THEN SkipWhitespace(s, i + 1) ELSE i

RECURSIVE ParseDigits(_, _, _)
ParseDigits(s, i, acc) ==
    IF i <= Len(s) /\ IsDigit(s[i])
    THEN ParseDigits(s, i + 1, 10 * acc + DigitValue(s[i]))
    ELSE acc

ParseInt(s) ==
    LET i == SkipWhitespace(s, 1)
        negative == i <= Len(s) /\ s[i] = "-"
        j == IF i <= Len(s) /\ s[i] \in {"-", "+"} THEN i + 1 ELSE i
    IN  IF j <= Len(s) /\ IsDigit(s[j])
        THEN JsNum(IF negative THEN 0 - ParseDigits(s, j, 0) ELSE ParseDigits(s, j, 0))
        ELSE JsNaN

\* parseInt(process.env.TIMEOUT_DEFAULT || '300000', 10)
TimeoutDefault(env) == ParseInt(EnvOr(env, <<"3", "0", "0", "0", "0", "0">>))

\* options.timeout || parseInt(...)
ResolveTimeout(option, env) == JsOr(option, TimeoutDefault(env))

\* What child_process.exec does with the timeout option: a positive integer
\* bounds the run of the process, 0 means no timeout, and any other value is
\* refused with ERR_OUT_OF_RANGE before anything is spawned.
TimeoutEffect(timeout) ==
    IF timeout.t = "number" /\ timeout.v > 0 THEN "bounded"
    ELSE IF timeout.t = "number" /\ timeout.v = 0 THEN "unbounded"
    ELSE "refused"

(***************************************************************************)
(* Result Cache: commandCache and cleanupCache                             *)
(***************************************************************************)

CACHE_TTL == 5 * 60 * 1000
MAX_CACHE_SIZE == 100

\* Map.prototype.has / get / delete / set on the sequence of entries. set
\* leaves a key that is present at its place and appends a new key.
CacheKeys(cache) == {cache[k].key : k \in 1..Len(cache)}
CacheHas(cache, key) == key \in CacheKeys(cache)
CacheGet(cache, key) == cache[CHOOSE k \in 1..Len(cache) : cache[k].key = key]
CacheDelete(cache, key) == SelectSeq(cache, LAMBDA e : e.key # key)
CacheSet(cache, key, entry) ==
    IF CacheHas(cache, key)
    THEN [k \in 1..Len(cache) |-> IF cache[k].key = key THEN entry ELSE cache[k]]
    ELSE Append(cache, entry)

\* Fault injection: the test of line 131 inverted, and with <= for <.
IsFreshInverted(timestamp, t) == t - timestamp > CACHE_TTL
IsFreshInclusive(timestamp, t) == t - timestamp <= CACHE_TTL

\* Line 131: the entry is still valid.
IsFresh(timestamp, t) == t - timestamp < CACHE_TTL

\* Lines 28-33: delete the expired entries.
RemoveExpired(cache, t) ==
    SelectSeq(cache, LAMBDA e : ~(t - e.timestamp >= CACHE_TTL))

\* Fault injection: the loop of lines 36-44 deleting the last key.
RECURSIVE EvictNewestWhileFull(_)
EvictNewestWhileFull(cache) ==
    IF Len(cache) >= MAX_CACHE_SIZE
    THEN (IF Len(cache[Len(cache)].key) > 0
          THEN EvictNewestWhileFull(SubSeq(cache, 1, Len(cache) - 1))
          ELSE cache)
    ELSE cache

\* Lines 36-44: delete the first key while the cache is at its maximum
\* size; a falsy first key (the empty string) ends the loop.
RECURSIVE EvictWhileFull(_)
EvictWhileFull(cache) ==
    IF Len(cache) >= MAX_CACHE_SIZE
    THEN (IF Len(cache[1].key) > 0 THEN EvictWhileFull(Tail(cache)) ELSE cache)
    ELSE cache

cleanupCache(cache, t) == EvictWhileFull(RemoveExpired(cache, t))

(***************************************************************************)
(* Execution Engine: executeCommand                                        *)
(***************************************************************************)

\* Line 123: the cache key, '' when caching is off.
cacheKey(command, cwd, useCache) ==
    IF useCache THEN command \o <<":">> \o cwd ELSE <<>>

\* What promisify(exec) settles with (Node's child_process.exec): it
\* resolves with the output when the process exits with status 0, and
\* rejects with an Error carrying code, stdout, stderr and message
\* otherwise: the exit status of a failed process, null for a process
\* killed on timeout, the error name for a spawn failure or an output
\* larger than maxBuffer.
ProcessOutcomes == {"exit0", "exitNonZero", "timeout", "spawnError", "maxBuffer"}

CommandFailed(command, stderr) == <<"Command failed: ">> \o command \o <<"\n">> \o stderr

ExecSettlement(kind, command) ==
    CASE kind = "exit0" ->
            [resolved |-> TRUE, code |-> JsUndefV, killed |-> FALSE,
             stdout |-> <<"out">>, stderr |-> <<>>, message |-> <<>>]
      [] kind = "exitNonZero" ->
            [resolved |-> FALSE, code |-> JsNum(2), killed |-> FALSE,
             stdout |-> <<"out">>, stderr |-> <<"err">>,
             message |-> CommandFailed(command, <<"err">>)]
      [] kind = "timeout" ->
            [resolved |-> FALSE, code |-> JsNullV, killed |-> TRUE,
             stdout |-> <<>>, stderr |-> <<>>,
             message |-> CommandFailed(command, <<>>)]
      [] kind = "spawnError" ->
            [resolved |-> FALSE, code |-> JsStr("ENOENT"), killed |-> FALSE,
             stdout |-> <<>>, stderr |-> <<>>,
             message |-> <<"spawn /bin/sh ENOENT">>]
      [] kind = "maxBuffer" ->
            [resolved |-> FALSE, code |-> JsStr("ERR_CHILD_PROCESS_STDIO_MAXBUFFER"),
             killed |-> TRUE, stdout |-> <<"out">>, stderr |-> <<>>,
             message |-> <<"stdout maxBuffer length exceeded">>]

\* Lines 167-171: the value returned when execPromise resolved.
TryReturn(res) ==
    [stdout |-> res.stdout, stderr |-> res.stderr, code |-> JsNum(0)]

\* Lines 194-198: the value returned when execPromise rejected.
CatchReturn(err) ==
    [stdout |-> TextOr(err.stdout, <<>>),
     stderr |-> TextOr(err.stderr, err.message),
     code   |-> JsOr(err.code, JsNum(1))]

\* Fault injection: a catch block that rethrows for a killed process, and
\* one that returns the error's code with 0 as the fallback.
SettleRethrowing(outcome) ==
    IF outcome.resolved
    THEN [how |-> "resolved", value |-> TryReturn(outcome)]
    ELSE IF outcome.killed
         THEN [how |-> "rejected", value |-> CatchReturn(outcome)]
         ELSE [how |-> "resolved", value |-> CatchReturn(outcome)]

SettleWithErrorCode(outcome) ==
    [how |-> "resolved",
     value |-> [stdout |-> outcome.stdout, stderr |-> outcome.stderr,
                code |-> IF outcome.resolved THEN JsNum(0)
                         ELSE JsOr(outcome.code, JsNum(0))]]

\* Lines 146-199: how the promise of executeCommand settles.
Settle(outcome) ==
    IF outcome.resolved
    THEN [how |-> "resolved", value |-> TryReturn(outcome)]
    ELSE [how |-> "resolved", value |-> CatchReturn(outcome)]

\* Lines 159-164 and 186-191: the entry stored for a returned value. The
\* field outcome is history, not part of the program's entry: the process
\* outcome the entry was made from.
CacheEntry(key, value, t, kind) ==
    [key |-> key, stdout |-> value.stdout, stderr |-> value.stderr,
     code |-> value.code, timestamp |-> t, outcome |-> kind]

\* Fault injection: a store that ignores useCache, and one that keeps only
\* the results of successful executions.
StoreResultAlways(cache, useCache, key, entry, t) ==
    CacheSet(cleanupCache(cache, t), key, entry)

StoreResultSuccessOnly(cache, useCache, key, entry, t) ==
    IF useCache /\ entry.code = JsNum(0)
    THEN CacheSet(cleanupCache(cache, t), key, entry)
    ELSE cache

\* Lines 155-165 and 182-192: with caching enabled, cleanupCache() and then
\* commandCache.set(cacheKey, ...); nothing otherwise.
StoreResult(cache, useCache, key, entry, t) ==
    IF useCache THEN CacheSet(cleanupCache(cache, t), key, entry) ELSE cache

NoResult == [stdout |-> <<>>, stderr |-> <<>>, code |-> JsUndefV]

IdleCall ==
    [state |-> "idle", command |-> <<>>, cwd |-> <<>>, useCache |-> FALSE,
     spawned |-> FALSE, outcome |-> "none", how |-> "none", result |-> NoResult,
     endTime |-> 0]

MaxCalls == 2
MaxTicks == 2

CallIds == 1..MaxCalls

\* Fault injection: an executeCommand that does not spawn a process while a
\* call with the same cache key is in flight, and waits for that one.
ExecuteStartCoalescing(i, command, cwd, useCache) ==
    LET key   == cacheKey(command, cwd, useCache)
        has   == useCache /\ CacheHas(commandCache, key)
        fresh == has /\ IsFresh(CacheGet(commandCache, key).timestamp, now)
        begun == [calls[i] EXCEPT !.command = command, !.cwd = cwd,
                                  !.useCache = useCache]
        inFlight == \E k \in DOMAIN calls :
                        /\ calls[k].state = "running" /\ calls[k].useCache
                        /\ cacheKey(calls[k].command, calls[k].cwd, TRUE) = key
    IN  /\ calls[i].state = "idle"
        /\ IF fresh
           THEN /\ calls' = [calls EXCEPT ![i] =
                       [begun EXCEPT !.state = "done", !.how = "resolved",
                                     !.outcome = CacheGet(commandCache, key).outcome,
                                     !.result = [stdout |-> CacheGet(commandCache, key).stdout,
                                                 stderr |-> CacheGet(commandCache, key).stderr,
                                                 code   |-> CacheGet(commandCache, key).code],
                                     !.endTime = now]]
                /\ UNCHANGED <<commandCache, spawns>>
           ELSE IF useCache /\ inFlight
           THEN /\ calls' = [calls EXCEPT ![i] = [begun EXCEPT !.state = "running"]]
                /\ UNCHANGED <<commandCache, spawns>>
           ELSE /\ commandCache' = IF has THEN CacheDelete(commandCache, key)
                                   ELSE commandCache
                /\ spawns' = spawns + 1
                /\ calls' = [calls EXCEPT ![i] =
                       [begun EXCEPT !.state = "running", !.spawned = TRUE]]
        /\ UNCHANGED <<now, ticks, lastSettled>>

\* Fault injection: an executeCommand whose cache hit refreshes the entry,
\* giving it the time of the read and moving it to the end of the order (LRU).
ExecuteStartRefreshing(i, command, cwd, useCache) ==
    LET key   == cacheKey(command, cwd, useCache)
        has   == useCache /\ CacheHas(commandCache, key)
        fresh == has /\ IsFresh(CacheGet(commandCache, key).timestamp, now)
        begun == [calls[i] EXCEPT !.command = command, !.cwd = cwd,
                                  !.useCache = useCache]
    IN  /\ calls[i].state = "idle"
        /\ IF fresh
           THEN /\ calls' = [calls EXCEPT ![i] =
                       [begun EXCEPT !.state = "done", !.how = "resolved",
                                     !.outcome = CacheGet(commandCache, key).outcome,
                                     !.result = [stdout |-> CacheGet(commandCache, key).stdout,
                                                 stderr |-> CacheGet(commandCache, key).stderr,
                                                 code   |-> CacheGet(commandCache, key).code],
                                     !.endTime = now]]
                /\ commandCache' =
                      CacheSet(CacheDelete(commandCache, key), key,
                               [CacheGet(commandCache, key) EXCEPT !.timestamp = now])
                /\ UNCHANGED spawns
           ELSE /\ commandCache' = IF has THEN CacheDelete(commandCache, key)
                                   ELSE commandCache
                /\ spawns' = spawns + 1
                /\ calls' = [calls EXCEPT ![i] =
                       [begun EXCEPT !.state = "running", !.spawned = TRUE]]
        /\ UNCHANGED <<now, ticks, lastSettled>>

\* executeCommand up to its await (lines 122-152): a valid cache entry is
\* returned at once; otherwise an expired entry is deleted and the process
\* is spawned.
ExecuteStart(i, command, cwd, useCache) ==
    LET key   == cacheKey(command, cwd, useCache)
        has   == useCache /\ CacheHas(commandCache, key)
        fresh == has /\ IsFresh(CacheGet(commandCache, key).timestamp, now)
        begun == [calls[i] EXCEPT !.command = command, !.cwd = cwd,
                                  !.useCache = useCache]
    IN  /\ calls[i].state = "idle"
        /\ IF fresh
           THEN /\ calls' = [calls EXCEPT ![i] =
                       [begun EXCEPT !.state = "done", !.how = "resolved",
                                     !.outcome = CacheGet(commandCache, key).outcome,
                                     !.result = [stdout |-> CacheGet(commandCache, key).stdout,
                                                 stderr |-> CacheGet(commandCache, key).stderr,
                                                 code   |-> CacheGet(commandCache, key).code],
                                     !.endTime = now]]
                /\ UNCHANGED <<commandCache, spawns>>
           ELSE /\ commandCache' = IF has THEN CacheDelete(commandCache, key)
                                   ELSE commandCache
                /\ spawns' = spawns + 1
                /\ calls' = [calls EXCEPT ![i] =
                       [begun EXCEPT !.state = "running", !.spawned = TRUE]]
        /\ UNCHANGED <<now, ticks, lastSettled>>

\* executeCommand after its await (lines 154-199): the result of the
\* process is stored (when caching is on) and returned.
ExecuteSettle(i, kind) ==
    LET c       == calls[i]
        key     == cacheKey(c.command, c.cwd, c.useCache)
        settled == Settle(ExecSettlement(kind, c.command))
    IN  /\ c.state = "running"
        /\ lastSettled' = IF c.useCache THEN i ELSE lastSettled
        /\ commandCache' =
              StoreResult(commandCache, c.useCache, key,
                          CacheEntry(key, settled.value, now, kind), now)
        /\ calls' = [calls EXCEPT ![i] =
               [c EXCEPT !.state = "done", !.outcome = kind, !.how = settled.how,
                         !.result = settled.value, !.endTime = now]]
        /\ UNCHANGED <<now, ticks, spawns>>

\* Time passes.
TickSteps == {1, CACHE_TTL - 1}

Tick(d) ==
    /\ ticks < MaxTicks
    /\ ticks' = ticks + 1
    /\ now' = now + d
    /\ UNCHANGED <<commandCache, calls, spawns, lastSettled>>

\* The requests made of the engine: command, options.cwd (empty when not
\* given) and options.useCache.
Request(command, cwd, useCache) ==
    [command |-> command, cwd |-> cwd, useCache |-> useCache]

Requests ==
    {Request(<<"v">>, <<>>, TRUE), Request(<<"v">>, <<>>, FALSE),
     Request(<<"u">>, <<"d">>, TRUE)}

\* The cache after n caching executions of distinct commands at time 0.
WarmCommand(k) == <<"w">> \o Decimal(k)

WarmCache(n) ==
    [k \in 1..n |->
        CacheEntry(cacheKey(WarmCommand(k), <<>>, TRUE),
                   TryReturn(ExecSettlement("exit0", WarmCommand(k))), 0, "exit0")]

WarmSizes == {0, MAX_CACHE_SIZE - 1}

NoCalls == [i \in CallIds |-> IdleCall]

StartCall ==
    /\ nextCall \in CallIds
    /\ nextCall' = nextCall + 1
    /\ \E r \in Requests : ExecuteStart(nextCall, r.command, r.cwd, r.useCache)

SettleCall ==
    /\ \E i \in CallIds, kind \in ProcessOutcomes : ExecuteSettle(i, kind)
    /\ UNCHANGED nextCall

Advance ==
    /\ \E d \in TickSteps : Tick(d)
    /\ UNCHANGED nextCall

NextExec == StartCall \/ SettleCall \/ Advance

(***************************************************************************)
(* Operation Facade: executeOpenStudioCommand and the six operations       *)
(***************************************************************************)

\* process.env.MODELS_PATH || './data/models', and the like (relative to
\* the working directory, as the defaults are).
RootPath(root) ==
    CASE root = "MODELS_PATH"  -> <<"m">>
      [] root = "RESULTS_PATH" -> <<"r">>
      [] root = "WEATHER_PATH" -> <<"w">>

\* path.join(OPENSTUDIO_PATH || '/usr/local/openstudio', 'bin', 'openstudio')
openStudioBin == <<"/usr/local/openstudio/bin/openstudio">>

\* path.dirname of a canonical absolute path.
Dirname(p) ==
    LET segs == Normalize(Split(p))
    IN  IF Len(segs) = 0 THEN <<"/">> ELSE Render(SubSeq(segs, 1, Len(segs) - 1))

\* path.join(p, name) of a canonical absolute path and a file name.
Join(p, name) == Render(Append(Normalize(Split(p)), name))

\* [openStudioBin, ...escapedArgs].join(' ')
RECURSIVE JoinArgs(_, _)
JoinArgs(args, i) ==
    IF i > Len(args) THEN <<>>
    ELSE <<" ">> \o escapeArgument(JsString(args[i])) \o JoinArgs(args, i + 1)

CommandLine(args) == openStudioBin \o JoinArgs(args, 1)

\* The statements of an operation, in the order of the code.
ConfineStmt(value, root, into) ==
    [do |-> "confine", value |-> value, root |-> root, name |-> into,
     dirname |-> FALSE, file |-> "", args |-> <<>>, useCache |-> FALSE, error |-> ""]
EnsureDirectoryStmt(of, dirname) ==
    [do |-> "ensureDirectory", value |-> <<>>, root |-> "", name |-> of,
     dirname |-> dirname, file |-> "", args |-> <<>>, useCache |-> FALSE, error |-> ""]
AccessStmt(of, file) ==
    [do |-> "access", value |-> <<>>, root |-> "", name |-> of,
     dirname |-> FALSE, file |-> file, args |-> <<>>, useCache |-> FALSE, error |-> ""]
ReadFileStmt(of, file, mayFail) ==
    [do |-> "readFile", value |-> <<>>, root |-> "", name |-> of,
     dirname |-> FALSE, file |-> file, args |-> <<>>, useCache |-> FALSE,
     error |-> IF mayFail THEN "throws" ELSE "caught"]
ExecStmt(args, cwd, useCache, error) ==
    [do |-> "exec", value |-> <<>>, root |-> "", name |-> cwd,
     dirname |-> FALSE, file |-> "", args |-> args, useCache |-> useCache, error |-> error]

\* An argument of the command line: a literal, or a confined path.
Lit(text)   == [local |-> FALSE, v |-> <<text>>]
Local(name) == [local |-> TRUE, v |-> <<name>>]

createOpenStudioModel(r) ==
    << ConfineStmt(r.outputPath, "MODELS_PATH", "safeOutputPath"),
       EnsureDirectoryStmt("safeOutputPath", TRUE),
       ExecStmt(<<Lit("create_model"), Lit("--building-type"), Lit("office"),
                  Lit("--location"), Lit("Boston"), Lit("--floor-area"), Lit("1000"),
                  Lit("--description"), Lit("office"), Lit("--output"),
                  Local("safeOutputPath")>>,
                "", FALSE, "OPENSTUDIO_ERROR") >>

runEnergySimulation(r) ==
    << ConfineStmt(r.modelPath, "MODELS_PATH", "safeModelPath"),
       ConfineStmt(r.outputPath, "RESULTS_PATH", "safeOutputDir"),
       EnsureDirectoryStmt("safeOutputDir", FALSE),
       AccessStmt("safeModelPath", "") >>
    \o (IF Len(r.weatherPath) > 0
        THEN << ConfineStmt(r.weatherPath, "WEATHER_PATH", "safeWeatherPath") >>
        ELSE << >>)
    \o << ExecStmt(<<Lit("run_simulation"), Local("safeModelPath")>>
                   \o (IF Len(r.weatherPath) > 0
                       THEN <<Lit("--weather-file"), Local("safeWeatherPath")>>
                       ELSE << >>)
                   \o <<Lit("--output-directory"), Local("safeOutputDir")>>,
                   "safeOutputDir", FALSE, "SIMULATION_ERROR") >>

validateModelASHRAE(r) ==
    << ConfineStmt(r.modelPath, "MODELS_PATH", "safeModelPath"),
       AccessStmt("safeModelPath", ""),
       ExecStmt(<<Lit("validate_model"), Lit("--model"), Local("safeModelPath"),
                  Lit("--standard"), Lit("ASHRAE-90.1"), Lit("--format"), Lit("json")>>,
                "", TRUE, "VALIDATION_ERROR") >>

\* Fault injection: the export called with { useCache: true }.
exportToRadianceCached(r) ==
    << ConfineStmt(r.modelPath, "MODELS_PATH", "safeModelPath"),
       ConfineStmt(r.outputPath, "RESULTS_PATH", "safeOutputPath"),
       AccessStmt("safeModelPath", ""),
       EnsureDirectoryStmt("safeOutputPath", TRUE),
       ExecStmt(<<Lit("export_radiance"), Local("safeModelPath"), Lit("--output"),
                  Local("safeOutputPath"), Lit("--include-windows"),
                  Lit("--include-materials")>>,
                "", TRUE, "EXPORT_ERROR") >>

exportToRadiance(r) ==
    << ConfineStmt(r.modelPath, "MODELS_PATH", "safeModelPath"),
       ConfineStmt(r.outputPath, "RESULTS_PATH", "safeOutputPath"),
       AccessStmt("safeModelPath", ""),
       EnsureDirectoryStmt("safeOutputPath", TRUE),
       ExecStmt(<<Lit("export_radiance"), Local("safeModelPath"), Lit("--output"),
                  Local("safeOutputPath"), Lit("--include-windows"),
                  Lit("--include-materials")>>,
                "", FALSE, "EXPORT_ERROR") >>

getSimulationResults(r) ==
    << ConfineStmt(r.outputPath, "RESULTS_PATH", "safeResultsDir"),
       AccessStmt("safeResultsDir", ""),
       AccessStmt("safeResultsDir", "results.json"),
       ReadFileStmt("safeResultsDir", "results.json", TRUE) >>

validateModelLEED(r) ==
    << ConfineStmt(r.modelPath, "MODELS_PATH", "safeModelPath"),
       ConfineStmt(r.outputPath, "RESULTS_PATH", "safeOutputPath"),
       EnsureDirectoryStmt("safeOutputPath", FALSE),
       AccessStmt("safeModelPath", ""),
       ExecStmt(<<Lit("validate_leed"), Lit("--model"), Local("safeModelPath"),
                  Lit("--output"), Local("safeOutputPath"), Lit("--leed-version"),
                  Lit("LEED v4.1"), Lit("--building-type"), Lit("office")>>
                \o (IF r.detailed THEN <<Lit("--detailed-report")>> ELSE << >>),
                "", TRUE, "LEED_VALIDATION_ERROR") >>
    \o (IF r.detailed
        THEN << ReadFileStmt("safeOutputPath", "leed_detailed_report.json", FALSE) >>
        ELSE << >>)

Operations ==
    {"createOpenStudioModel", "runEnergySimulation", "validateModelASHRAE",
     "exportToRadiance", "getSimulationResults", "validateModelLEED"}

Program(r) ==
    CASE r.op = "createOpenStudioModel" -> createOpenStudioModel(r)
      [] r.op = "runEnergySimulation"   -> runEnergySimulation(r)
      [] r.op = "validateModelASHRAE"   -> validateModelASHRAE(r)
      [] r.op = "exportToRadiance"      -> exportToRadiance(r)
      [] r.op = "getSimulationResults"  -> getSimulationResults(r)
      [] r.op = "validateModelLEED"     -> validateModelLEED(r)

\* An entry of the trace.
Event(ev, path, root, flag) == [ev |-> ev, path |-> path, root |-> root, flag |-> flag]

NoLocal == [path |-> <<>>, root |-> ""]

LocalNames ==
    {"safeModelPath", "safeOutputPath", "safeOutputDir", "safeWeatherPath",
     "safeResultsDir"}

NoLocals  == [n \in LocalNames |-> NoLocal]

Pending == [status |-> "pending", code |-> "", httpStatus |-> 0, message |-> <<>>]
Returned == [status |-> "returned", code |-> "", httpStatus |-> 0, message |-> <<>>]
Thrown(code, httpStatus, message) ==
    [status |-> "threw", code |-> code, httpStatus |-> httpStatus, message |-> message]

\* The path a statement uses: the local, its directory, or a file in it.
StmtPath(stmt) ==
    IF stmt.dirname THEN Dirname(locals[stmt.name].path)
    ELSE IF stmt.file # "" THEN Join(locals[stmt.name].path, <<stmt.file>>)
    ELSE locals[stmt.name].path

\* The argument values of an exec statement.
ArgumentValues(args) ==
    [k \in 1..Len(args) |->
        IF args[k].local THEN locals[args[k].v[1]].path ELSE args[k].v]

\* The confined paths among the arguments of an exec statement, as events.
ArgEvents(args) ==
    LET ks == SelectSeq([k \in 1..Len(args) |-> args[k]], LAMBDA a : a.local)
    IN  [k \in 1..Len(ks) |->
            Event("argument", locals[ks[k].v[1]].path, locals[ks[k].v[1]].root, TRUE)]

Running == returned = Pending /\ fpc \in 1..Len(Program(request))

Stmt == Program(request)[fpc]

\* The operation has made its call of executeOpenStudioCommand.
CallMade == \E k \in 1..Len(trace) : trace[k].ev = "executeCommand"

\* The executeCommand call of the operation.
TheCall == calls[nextCall - 1]

\* The text before the captured stderr in the message of the AppError.
ErrorPrefix(code) ==
    CASE code = "OPENSTUDIO_ERROR"      -> "Failed to create OpenStudio model: "
      [] code = "SIMULATION_ERROR"      -> "Energy simulation failed: "
      [] code = "VALIDATION_ERROR"      -> "Model validation failed: "
      [] code = "EXPORT_ERROR"          -> "Radiance export failed: "
      [] code = "LEED_VALIDATION_ERROR" -> "LEED validation failed: "

\* Fault injection: a test that takes only a non-zero number for a failure.
CodeIsFailureNumeric(code) == code.t = "number" /\ code.v # 0

\* result.code !== 0
CodeIsFailure(code) == code # JsNum(0)

\* A statement other than the engine call.
FacadeStep ==
    /\ Running
    /\ Stmt.do # "exec"
    /\ \E found \in BOOLEAN :
        CASE Stmt.do = "confine" ->
                LET r == validateAndResolvePath(Stmt.value, RootPath(Stmt.root))
                IN  /\ trace' = Append(trace, Event("confine", Stmt.value, Stmt.root, r.ok))
                    /\ found
                    /\ IF r.ok
                       THEN /\ locals' = [locals EXCEPT ![Stmt.name] =
                                             [path |-> r.path, root |-> Stmt.root]]
                            /\ fpc' = fpc + 1
                            /\ UNCHANGED returned
                       ELSE /\ returned' = Thrown(r.code, r.status, r.message)
                            /\ UNCHANGED <<locals, fpc>>
          [] Stmt.do = "ensureDirectory" ->
                /\ trace' = Append(trace, Event("ensureDirectory", StmtPath(Stmt),
                                                locals[Stmt.name].root, found))
                /\ fpc' = fpc + 1
                /\ UNCHANGED <<locals, returned>>
          [] Stmt.do \in {"access", "readFile"} ->
                /\ trace' = Append(trace, Event(Stmt.do, StmtPath(Stmt),
                                                locals[Stmt.name].root, found))
                /\ IF found \/ Stmt.error = "caught"
                   THEN fpc' = fpc + 1 /\ UNCHANGED returned
                   ELSE /\ returned' = IF Stmt.do = "access"
                                      THEN Thrown("NOT_FOUND", 404, StmtPath(Stmt))
                                      ELSE Thrown("ENOENT", 0, StmtPath(Stmt))
                        /\ UNCHANGED fpc
                /\ UNCHANGED locals
    /\ UNCHANGED <<request, execVars>>

\* Fault injection: executeOpenStudioCommand without its ensureDirectory.
FacadeExecStartUnensured ==
    /\ Running
    /\ Stmt.do = "exec"
    /\ ~CallMade
    /\ nextCall \in CallIds
    /\ nextCall' = nextCall + 1
    /\ LET cwd == IF Stmt.name = "" THEN <<>> ELSE locals[Stmt.name].path
       IN  /\ trace' = trace
                \o ArgEvents(Stmt.args)
                \o <<Event("executeCommand", cwd,
                           IF Stmt.name = "" THEN "" ELSE locals[Stmt.name].root,
                           Stmt.useCache)>>
           /\ ExecuteStart(nextCall, CommandLine(ArgumentValues(Stmt.args)), cwd,
                           Stmt.useCache)
    /\ UNCHANGED <<request, fpc, locals, returned>>

\* executeOpenStudioCommand up to the await of executeCommand: the working
\* directory is ensured, the arguments are escaped and joined, and
\* executeCommand starts.
FacadeExecStart ==
    /\ Running
    /\ Stmt.do = "exec"
    /\ ~CallMade
    /\ nextCall \in CallIds
    /\ nextCall' = nextCall + 1
    /\ LET cwd == IF Stmt.name = "" THEN <<>> ELSE locals[Stmt.name].path
       IN  /\ trace' = trace
                \o (IF Stmt.name = "" THEN <<>>
                    ELSE <<Event("ensureDirectory", cwd, locals[Stmt.name].root, TRUE)>>)
                \o ArgEvents(Stmt.args)
                \o <<Event("executeCommand", cwd,
                           IF Stmt.name = "" THEN "" ELSE locals[Stmt.name].root,
                           Stmt.useCache)>>
           /\ ExecuteStart(nextCall, CommandLine(ArgumentValues(Stmt.args)), cwd,
                           Stmt.useCache)
    /\ UNCHANGED <<request, fpc, locals, returned>>

\* The spawned process ends and executeCommand returns.
FacadeExecSettle ==
    /\ Running
    /\ Stmt.do = "exec"
    /\ CallMade
    /\ \E kind \in ProcessOutcomes : ExecuteSettle(nextCall - 1, kind)
    /\ UNCHANGED <<facadeVars, nextCall>>

\* The operation looks at the returned code.
FacadeExecReturn ==
    /\ Running
    /\ Stmt.do = "exec"
    /\ CallMade
    /\ TheCall.state = "done"
    /\ IF CodeIsFailure(TheCall.result.code)
       THEN /\ returned' = Thrown(Stmt.error, 500,
                                  <<ErrorPrefix(Stmt.error)>> \o TheCall.result.stderr)
            /\ UNCHANGED fpc
       ELSE /\ fpc' = fpc + 1
            /\ UNCHANGED returned
    /\ UNCHANGED <<request, locals, trace, execVars>>

\* The operation returns its value.
FacadeReturn ==
    /\ returned = Pending
    /\ fpc = Len(Program(request)) + 1
    /\ returned' = Returned
    /\ UNCHANGED <<request, fpc, locals, trace, execVars>>

\* The same operation is called again, after it has returned or thrown.
FacadeAgain ==
    /\ returned # Pending
    /\ nextCall \in CallIds
    /\ fpc' = 1
    /\ locals' = NoLocals
    /\ trace' = <<>>
    /\ returned' = Pending
    /\ UNCHANGED <<request, execVars>>

NextFacade ==
    \/ FacadeStep
    \/ FacadeExecStart
    \/ FacadeExecSettle
    \/ FacadeExecReturn
    \/ FacadeReturn
    \/ FacadeAgain

\* The path parameters tried: a file below the root, the root itself, a
\* relative traversal, an absolute path outside every root, an absolute path
\* below the models root, a sibling whose name begins like the results root.
FacadePaths ==
    {<<"x">>, <<".">>, <<".", ".", "/", "x">>, <<"/", "x">>,
     <<"/", "e", "/", "m", "/", "x">>, <<"/", "e", "/", "r", "2">>}

FacadeRequests ==
    [op : Operations, modelPath : FacadePaths, outputPath : FacadePaths,
     weatherPath : {<<>>, <<"x">>, <<"/", "x">>}, detailed : BOOLEAN]

NoRequest == [op |-> "none"]

(***************************************************************************)
(* The shell that child_process.exec hands the command to (/bin/sh -c):    *)
(* how a POSIX shell splits a command line into words                      *)
(***************************************************************************)

\* Unquoted, these end a word and are read as operators.
ShellOperators == {";", "&", "|", "<", ">", "(", ")", "\n"}

ShellBlanks == {" ", "\t"}

\* Inside double quotes a backslash escapes these only; before any other
\* character the backslash stays.
EscapableInDoubleQuotes == {"$", Backtick, "\"", "\\"}

\* What may follow a dollar sign for it to begin an expansion.
DollarNameStart ==
    {"a", "b", "c", "d", "e", "f", "g", "h", "i", "j", "k", "l", "m", "n",
     "o", "p", "q", "r", "s", "t", "u", "v", "w", "x", "y", "z",
     "A", "B", "C", "D", "E", "F", "G", "H", "I", "J", "K", "L", "M", "N",
     "O", "P", "Q", "R", "S", "T", "U", "V", "W", "X", "Y", "Z",
     "0", "1", "2", "3", "4", "5", "6", "7", "8", "9",
     "_", "{", "(", "@", "*", "#", "?", "-", "$", "!"}

Expands(line, i) ==
    \/ line[i] = Backtick
    \/ line[i] = "$" /\ i < Len(line) /\ line[i + 1] \in DollarNameStart

\* The words of a command line. A word is the text the process receives as
\* one argument; what the shell does not pass on as text is marked: an
\* operator, an expansion, a comment, a quote left open.
RECURSIVE ShellSplitFrom(_, _, _, _, _, _)
ShellSplitFrom(line, i, mode, cur, open, acc) ==
    IF i > Len(line)
    THEN (IF mode # "plain" THEN Append(acc, Append(cur, "<unterminated>"))
          ELSE IF open THEN Append(acc, cur) ELSE acc)
    ELSE LET c      == line[i]
             closed == IF open THEN Append(acc, cur) ELSE acc
         IN  CASE mode = "plain" ->
                    (IF c \in ShellBlanks
                     THEN ShellSplitFrom(line, i + 1, "plain", <<>>, FALSE, closed)
                     ELSE IF c \in ShellOperators
                     THEN ShellSplitFrom(line, i + 1, "plain", <<>>, FALSE,
                                         Append(closed, <<"<operator>", c>>))
                     ELSE IF c = "#" /\ ~open
                     THEN Append(acc, <<"<comment>">>)
                     ELSE IF c = "~" /\ ~open
                     THEN ShellSplitFrom(line, i + 1, "plain", <<"<expansion>">>, TRUE, acc)
                     ELSE IF c = "\""
                     THEN ShellSplitFrom(line, i + 1, "dq", cur, TRUE, acc)
                     ELSE IF c = "'"
                     THEN ShellSplitFrom(line, i + 1, "sq", cur, TRUE, acc)
                     ELSE IF c = "\\"
                     THEN (IF i = Len(line)
                           THEN ShellSplitFrom(line, i + 1, "plain", Append(cur, c), TRUE, acc)
                           ELSE IF line[i + 1] = "\n"
                           THEN ShellSplitFrom(line, i + 2, "plain", cur, open, acc)
                           ELSE ShellSplitFrom(line, i + 2, "plain",
                                               Append(cur, line[i + 1]), TRUE, acc))
                     ELSE IF Expands(line, i) \/ c \in {"*", "?", "["}
                     THEN ShellSplitFrom(line, i + 1, "plain",
                                         Append(cur, "<expansion>"), TRUE, acc)
                     ELSE ShellSplitFrom(line, i + 1, "plain", Append(cur, c), TRUE, acc))
               [] mode = "dq" ->
                    (IF c = "\""
                     THEN ShellSplitFrom(line, i + 1, "plain", cur, TRUE, acc)
                     ELSE IF c = "\\" /\ i < Len(line)
                             /\ line[i + 1] \in EscapableInDoubleQuotes
                     THEN ShellSplitFrom(line, i + 2, "dq", Append(cur, line[i + 1]), TRUE, acc)
                     ELSE IF c = "\\" /\ i < Len(line) /\ line[i + 1] = "\n"
                     THEN ShellSplitFrom(line, i + 2, "dq", cur, TRUE, acc)
                     ELSE IF Expands(line, i)
                     THEN ShellSplitFrom(line, i + 1, "dq",
                                         Append(cur, "<expansion>"), TRUE, acc)
                     ELSE ShellSplitFrom(line, i + 1, "dq", Append(cur, c), TRUE, acc))
               [] mode = "sq" ->
                    (IF c = "'"
                     THEN ShellSplitFrom(line, i + 1, "plain", cur, TRUE, acc)
                     ELSE ShellSplitFrom(line, i + 1, "sq", Append(cur, c), TRUE, acc))

ShellSplit(line) == ShellSplitFrom(line, 1, "plain", <<>>, FALSE, <<>>)

(***************************************************************************)
(* Simulation jobs (src/src/routes/simulations.ts): the job map, the       *)
(* handlers that change it or read results, and the background             *)
(* runSimulation of each job                                               *)
(***************************************************************************)

MaxJobs == 2

\* The ids uuidv4 hands out, in order; an id not handed out yet is an
\* unknown id.
JobIds == 1..MaxJobs

\* What simulationJobs.get returns for an id without an entry.
AbsentJob ==
    [status |-> "absent", progress |-> 0, startedAt |-> FALSE,
     completedAt |-> FALSE, results |-> FALSE]

\* Lines 149-155: the job POST / stores.
NewJob ==
    [status |-> "pending", progress |-> 0, startedAt |-> TRUE,
     completedAt |-> FALSE, results |-> FALSE]

\* Fault injection: a cancel handler that refuses only failed and cancelled
\* jobs.
CancelRefusedUnlessCompleted(status) == status \in {"failed", "cancelled"}

\* Line 199: the statuses POST /:id/cancel refuses.
CancelRefused(status) == status \in {"completed", "failed", "cancelled"}

\* Lines 204-208: { ...job, status: 'cancelled', completedAt: new Date() }
CancelledJob(job) == [job EXCEPT !.status = "cancelled", !.completedAt = TRUE]

\* Lines 368 and 376: { ...job, status: 'running', progress }
RunningJob(job, progress) == [job EXCEPT !.status = "running", !.progress = progress]

\* Fault injection: a completion that stores no results.
CompletedJobWithoutResults(job) ==
    [job EXCEPT !.status = "completed", !.progress = 100, !.completedAt = TRUE]

\* Lines 380-422: { ...job, status: 'completed', progress: 100,
\* completedAt: new Date(), results: {...} }
CompletedJob(job) ==
    [job EXCEPT !.status = "completed", !.progress = 100, !.completedAt = TRUE,
                !.results = TRUE]

\* The loop of lines 371-377: for (progress = 10; progress <= 90; progress += 20)
ProgressFirst == 10
ProgressLast  == 90
ProgressStep  == 20

\* A response of the router: the handler, the id asked for, the error thrown
\* ("none" when the handler answered), the HTTP status of an answer, the
\* status of the job the handler read, and whether results were sent.
Respond(op, id, error, code, seen, results) ==
    [op |-> op, id |-> id, error |-> error, code |-> code, seen |-> seen,
     results |-> results]

NoResponse == Respond("none", 0, "none", 0, "absent", FALSE)

NoRunner == [pc |-> "none", job |-> AbsentJob, progress |-> 0]

\* POST / (lines 133-178): a body that fails validation is refused; a valid
\* one stores a pending job and sets the 100 ms timer of runSimulation.
CreateJob ==
    \E valid \in BOOLEAN :
        IF ~valid
        THEN /\ response' = Respond("create", 0, "ValidationError", 0, "absent", FALSE)
             /\ UNCHANGED <<simulationJobs, runners, nextJobId>>
        ELSE /\ nextJobId \in JobIds
             /\ simulationJobs' = [simulationJobs EXCEPT ![nextJobId] = NewJob]
             /\ runners' = [runners EXCEPT ![nextJobId] = [NoRunner EXCEPT !.pc = "timer"]]
             /\ nextJobId' = nextJobId + 1
             /\ response' = Respond("create", nextJobId, "none", 201, "pending", FALSE)

\* POST /:id/cancel (lines 184-225).
CancelJob ==
    \E id \in JobIds :
        LET job == simulationJobs[id]
        IN  /\ IF job.status = "absent"
               THEN /\ response' = Respond("cancel", id, "NotFoundError", 0, job.status, FALSE)
                    /\ UNCHANGED simulationJobs
               ELSE IF CancelRefused(job.status)
               THEN /\ response' = Respond("cancel", id, "ValidationError", 0, job.status, FALSE)
                    /\ UNCHANGED simulationJobs
               ELSE /\ simulationJobs' = [simulationJobs EXCEPT ![id] = CancelledJob(job)]
                    /\ response' = Respond("cancel", id, "none", 200, job.status, FALSE)
            /\ UNCHANGED <<runners, nextJobId>>

\* GET /:id/results (lines 231-283).
GetResults ==
    \E id \in JobIds :
        LET job == simulationJobs[id]
        IN  /\ response' =
                  IF job.status = "absent"
                  THEN Respond("results", id, "NotFoundError", 0, job.status, FALSE)
                  ELSE IF job.status # "completed"
                  THEN Respond("results", id, "ValidationError", 0, job.status, FALSE)
                  ELSE IF ~job.results
                  THEN Respond("results", id, "ValidationError", 0, job.status, FALSE)
                  ELSE Respond("results", id, "none", 200, job.status, TRUE)
            /\ UNCHANGED <<simulationJobs, runners, nextJobId>>

\* DELETE /:id (lines 325-357).
DeleteJob ==
    \E id \in JobIds :
        LET job == simulationJobs[id]
        IN  /\ IF job.status = "absent"
               THEN /\ response' = Respond("delete", id, "NotFoundError", 0, job.status, FALSE)
                    /\ UNCHANGED simulationJobs
               ELSE /\ simulationJobs' = [simulationJobs EXCEPT ![id] = AbsentJob]
                    /\ response' = Respond("delete", id, "none", 204, job.status, FALSE)
            /\ UNCHANGED <<runners, nextJobId>>

\* runSimulation from the timer to its first await (lines 362-372): it
\* returns when the job is gone, and otherwise stores the job as running.
RunStart ==
    \E id \in JobIds :
        LET job == simulationJobs[id]
        IN  /\ runners[id].pc = "timer"
            /\ IF job.status = "absent"
               THEN /\ runners' = [runners EXCEPT ![id].pc = "ended"]
                    /\ UNCHANGED simulationJobs
               ELSE /\ simulationJobs' = [simulationJobs EXCEPT ![id] = RunningJob(job, 0)]
                    /\ runners' = [runners EXCEPT ![id] =
                           [pc |-> "sleeping", job |-> job, progress |-> ProgressFirst]]
            /\ UNCHANGED <<nextJobId, response>>

\* runSimulation from the end of a one-second wait to the next await or to
\* its end (lines 373-430): it returns when the job is cancelled, stores
\* the progress otherwise, and after the last progress step stores the
\* completed job.
RunStep ==
    \E id \in JobIds :
        LET r == runners[id]
        IN  /\ r.pc = "sleeping"
            /\ IF simulationJobs[id].status = "cancelled"
               THEN /\ runners' = [runners EXCEPT ![id].pc = "ended"]
                    /\ UNCHANGED simulationJobs
               ELSE IF r.progress + ProgressStep <= ProgressLast
               THEN /\ simulationJobs' =
                          [simulationJobs EXCEPT ![id] = RunningJob(r.job, r.progress)]
                    /\ runners' = [runners EXCEPT ![id].progress = r.progress + ProgressStep]
               ELSE /\ simulationJobs' =
                          [simulationJobs EXCEPT ![id] = CompletedJob(r.job)]
                    /\ runners' = [runners EXCEPT ![id].pc = "ended"]
            /\ UNCHANGED <<nextJobId, response>>

NextJobs ==
    \/ CreateJob
    \/ CancelJob
    \/ GetResults
    \/ DeleteJob
    \/ RunStart
    \/ RunStep

(***************************************************************************)
(* OpenStudioApplication (src/src/index.ts): start and stop of the Express *)
(* server and of the MCP stdio server                                      *)
(***************************************************************************)

MaxAppCalls == 3

\* The application after its constructor. mcpEnabled is
\* isDevelopment || process.env.ENABLE_MCP_STDIO === 'true'; express and mcp
\* are the isRunning flags of the two servers, which are set when the server
\* has started and cleared when it has stopped; log holds the calls that
\* have settled, oldest first.
NewApp(mcpEnabled) ==
    [ok |-> TRUE, none |-> FALSE, mcpEnabled |-> mcpEnabled, isRunning |-> FALSE,
     express |-> FALSE, mcp |-> FALSE, startPc |-> "idle", stopPc |-> "idle",
     begun |-> 0, log |-> <<>>]

\* A call of start or stop has settled.
Settled(a, call, how) ==
    [a EXCEPT !.log = Append(a.log, [call |-> call, how |-> how])]

\* Lines 66-75: start() after its servers have started.
StartDone(a) == Settled([a EXCEPT !.isRunning = TRUE, !.startPc = "idle"], "start", "resolved")

\* Lines 70-74: start() rethrows what a server's start threw.
StartFailed(a) == Settled([a EXCEPT !.startPc = "idle"], "start", "rejected")

\* Lines 100-101: stop() after its servers have stopped.
StopDone(a) == Settled([a EXCEPT !.isRunning = FALSE, !.stopPc = "idle"], "stop", "resolved")

\* Lines 102-105: stop() rethrows what a server's stop threw.
StopFailed(a) == Settled([a EXCEPT !.stopPc = "idle"], "stop", "rejected")

\* start() up to await this.expressServer.start() (lines 34-52).
AppStart ==
    /\ app.startPc = "idle"
    /\ app.begun < MaxAppCalls
    /\ app' = IF app.isRunning
              THEN Settled([app EXCEPT !.begun = app.begun + 1], "start", "returned")
              ELSE [app EXCEPT !.begun = app.begun + 1, !.startPc = "express"]

\* expressServer.start() settles (server.ts:295-322): at once when the
\* server is running already, with isRunning set when listen succeeds, with
\* a rejection when the HTTP server emits an error. start() goes on to
\* await this.mcpServer.start() when the stdio server is enabled (lines
\* 53-59).
AppStartExpressSettles ==
    /\ app.startPc = "express"
    /\ \E listens \in BOOLEAN :
          IF ~app.express /\ ~listens
          THEN app' = StartFailed(app)
          ELSE LET a == [app EXCEPT !.express = TRUE]
               IN  app' = IF a.mcpEnabled THEN [a EXCEPT !.startPc = "mcp"]
                          ELSE StartDone(a)

\* mcpServer.start() settles (part_004:925-941): at once when the server is
\* running already, with isRunning set when the transport connects, with a
\* rejection when it does not.
AppStartMcpSettles ==
    /\ app.startPc = "mcp"
    /\ \E connects \in BOOLEAN :
          IF ~app.mcp /\ ~connects
          THEN app' = StartFailed(app)
          ELSE app' = StartDone([app EXCEPT !.mcp = TRUE])

\* What stop() does once the MCP server is dealt with (lines 95-101).
StopExpressOrDone(a) ==
    IF a.express THEN [a EXCEPT !.stopPc = "express"] ELSE StopDone(a)

\* stop() up to its first await (lines 80-92).
AppStop ==
    /\ app.stopPc = "idle"
    /\ app.begun < MaxAppCalls
    /\ LET a == [app EXCEPT !.begun = app.begun + 1]
       IN  app' = IF ~a.isRunning THEN Settled(a, "stop", "returned")
                  ELSE IF a.mcp THEN [a EXCEPT !.stopPc = "mcp"]
                  ELSE StopExpressOrDone(a)

\* mcpServer.stop() settles (part_004:943-958).
AppStopMcpSettles ==
    /\ app.stopPc = "mcp"
    /\ \E closes \in BOOLEAN :
          IF app.mcp /\ ~closes
          THEN app' = StopFailed(app)
          ELSE app' = StopExpressOrDone([app EXCEPT !.mcp = FALSE])

\* expressServer.stop() settles (server.ts:327-351).
AppStopExpressSettles ==
    /\ app.stopPc = "express"
    /\ \E closes \in BOOLEAN :
          IF app.express /\ ~closes
          THEN app' = StopFailed(app)
          ELSE app' = StopDone([app EXCEPT !.express = FALSE])

NextApp ==
    \/ AppStart
    \/ AppStartExpressSettles
    \/ AppStartMcpSettles
    \/ AppStop
    \/ AppStopMcpSettles
    \/ AppStopExpressSettles

(***************************************************************************)
(* retry (src/unnamed/part_006, lines 141-161)                             *)
(***************************************************************************)

MaxRetryAttempts == 3

\* What an attempt settles with: a value, an Error, or a rejection with a
\* value that is not an Error. The number tells the attempts apart.
FnValue(k)    == [how |-> "resolved", kind |-> "value", id |-> k]
FnError(k)    == [how |-> "rejected", kind |-> "Error", id |-> k]
FnNonError(k) == [how |-> "rejected", kind |-> "value", id |-> k]

FnOutcomes(k) == {FnValue(k), FnError(k), FnNonError(k)}

\* new Error('Unknown error')
UnknownError == [how |-> "rejected", kind |-> "Error", id |-> 0]

\* let lastError: Error, before any assignment.
Unassigned == [how |-> "rejected", kind |-> "undefined", id |-> 0]

\* Fault injection: the rejection kept as it was thrown.
LastErrorRaw(error) == error

\* Line 152: error instanceof Error ? error : new Error('Unknown error')
LastError(error) == IF error.kind = "Error" THEN error ELSE UnknownError

\* Line 154: attempt < maxAttempts
SleepsAfter(attempt, maxAttempts) == attempt < maxAttempts

\* retry called with maxAttempts and delay: the loop variable, the error
\* kept, where the function is, what it has done (calls of fn, their
\* settlements, sleeps) and how it settled.
NewRetry(maxAttempts, delay) ==
    [ok |-> TRUE, none |-> FALSE, maxAttempts |-> maxAttempts, delay |-> delay,
     attempt |-> 1, lastError |-> Unassigned, pc |-> "loop", events |-> <<>>,
     result |-> Unassigned]

\* Lines 148-150 and 160: the loop test; fn is called, or lastError is
\* thrown when the attempts are used up.
RetryLoop ==
    /\ retrying.pc = "loop"
    /\ retrying' =
          IF retrying.attempt <= retrying.maxAttempts
          THEN [retrying EXCEPT !.pc = "fn",
                                !.events = Append(@, [ev |-> "call", v |-> retrying.attempt])]
          ELSE [retrying EXCEPT !.pc = "done", !.result = retrying.lastError]

\* Lines 150-157: fn settles; its value is returned, or its error is kept
\* and the function sleeps or goes to the next attempt.
RetryFnSettles ==
    /\ retrying.pc = "fn"
    /\ \E outcome \in FnOutcomes(retrying.attempt) :
          LET seen == [retrying EXCEPT !.events = Append(@, [ev |-> "settle", v |-> outcome])]
          IN  retrying' =
                IF outcome.how = "resolved"
                THEN [seen EXCEPT !.pc = "done", !.result = outcome]
                ELSE IF SleepsAfter(seen.attempt, seen.maxAttempts)
                THEN [seen EXCEPT !.lastError = LastError(outcome), !.pc = "sleep",
                                  !.events = Append(@, [ev |-> "sleep", v |-> seen.delay])]
                ELSE [seen EXCEPT !.lastError = LastError(outcome), !.pc = "loop",
                                  !.attempt = @ + 1]

\* Line 155: the sleep ends.
RetrySleepEnds ==
    /\ retrying.pc = "sleep"
    /\ retrying' = [retrying EXCEPT !.pc = "loop", !.attempt = @ + 1]

NextRetry == RetryLoop \/ RetryFnSettles \/ RetrySleepEnds

(***************************************************************************)
(* Natural-language parser (src/unnamed/part_007, lines 79-222):           *)
(* parseBuildingDescription and validateBuildingParameters                 *)
(***************************************************************************)

UpperChars ==
    <<"A", "B", "C", "D", "E", "F", "G", "H", "I", "J", "K", "L", "M", "N", "O", "P", "Q", "R", "S", "T", "U", "V", "W", "X", "Y", "Z">>
LowerChars ==
    <<"a", "b", "c", "d", "e", "f", "g", "h", "i", "j", "k", "l", "m", "n", "o", "p", "q", "r", "s", "t", "u", "v", "w", "x", "y", "z">>

\* String.prototype.toLowerCase, on the letters A-Z.
LowerChar(c) ==
    IF \E k \in 1..Len(UpperChars) : UpperChars[k] = c
    THEN LowerChars[CHOOSE k \in 1..Len(UpperChars) : UpperChars[k] = c]
    ELSE c

ToLowerCase(str) == [k \in 1..Len(str) |-> LowerChar(str[k])]

\* String.prototype.includes
Includes(str, sub) ==
    \E i \in 1..(Len(str) - Len(sub) + 1) : SubSeq(str, i, i + Len(sub) - 1) = sub

IncludesAny(str, subs) == \E sub \in subs : Includes(str, sub)

\* String.prototype.trim, for the blank.
RECURSIVE Trim(_)
Trim(str) ==
    IF Len(str) > 0 /\ str[1] = " " THEN Trim(Tail(str))
    ELSE IF Len(str) > 0 /\ str[Len(str)] = " " THEN Trim(SubSeq(str, 1, Len(str) - 1))
    ELSE str

\* Lines 96-114: the building type keywords, in the order they are tried.
BuildingTypeOf(lower) ==
    IF Includes(lower, <<"o", "f", "f", "i", "c", "e">>) THEN <<"o", "f", "f", "i", "c", "e">>
    ELSE IF IncludesAny(lower, {<<"r", "e", "s", "i", "d", "e", "n", "t", "i", "a", "l">>,
                             <<"h", "o", "u", "s", "e">>,
                             <<"h", "o", "m", "e">>})
    THEN <<"r", "e", "s", "i", "d", "e", "n", "t", "i", "a", "l">>
    ELSE IF IncludesAny(lower, {<<"r", "e", "t", "a", "i", "l">>,
                             <<"s", "h", "o", "p">>,
                             <<"s", "t", "o", "r", "e">>})
    THEN <<"r", "e", "t", "a", "i", "l">>
    ELSE IF IncludesAny(lower, {<<"s", "c", "h", "o", "o", "l">>,
                             <<"e", "d", "u", "c", "a", "t", "i", "o", "n">>})
    THEN <<"e", "d", "u", "c", "a", "t", "i", "o", "n">>
    ELSE IF IncludesAny(lower, {<<"h", "o", "s", "p", "i", "t", "a", "l">>,
                             <<"h", "e", "a", "l", "t", "h", "c", "a", "r", "e">>})
    THEN <<"h", "e", "a", "l", "t", "h", "c", "a", "r", "e">>
    ELSE <<"o", "f", "f", "i", "c", "e">>

\* Lines 118-138: the city names, in the order they are tried.
LocationOf(lower) ==
    IF IncludesAny(lower, {<<"n", "e", "w", " ", "y", "o", "r", "k">>,
                        <<"n", "y", "c">>})
    THEN <<"N", "e", "w", " ", "Y", "o", "r", "k", ",", " ", "N", "Y">>
    ELSE IF IncludesAny(lower, {<<"l", "o", "s", " ", "a", "n", "g", "e", "l", "e", "s">>,
                             <<"l", "a">>})
    THEN <<"L", "o", "s", " ", "A", "n", "g", "e", "l", "e", "s", ",", " ", "C", "A">>
    ELSE IF Includes(lower, <<"c", "h", "i", "c", "a", "g", "o">>) THEN <<"C", "h", "i", "c", "a", "g", "o", ",", " ", "I", "L">>
    ELSE IF Includes(lower, <<"h", "o", "u", "s", "t", "o", "n">>) THEN <<"H", "o", "u", "s", "t", "o", "n", ",", " ", "T", "X">>
    ELSE IF Includes(lower, <<"p", "h", "o", "e", "n", "i", "x">>) THEN <<"P", "h", "o", "e", "n", "i", "x", ",", " ", "A", "Z">>
    ELSE IF Includes(lower, <<"p", "h", "i", "l", "a", "d", "e", "l", "p", "h", "i", "a">>)
    THEN <<"P", "h", "i", "l", "a", "d", "e", "l", "p", "h", "i", "a", ",", " ", "P", "A">>
    ELSE IF Includes(lower, <<"s", "a", "n", " ", "a", "n", "t", "o", "n", "i", "o">>)
    THEN <<"S", "a", "n", " ", "A", "n", "t", "o", "n", "i", "o", ",", " ", "T", "X">>
    ELSE IF Includes(lower, <<"s", "a", "n", " ", "d", "i", "e", "g", "o">>)
    THEN <<"S", "a", "n", " ", "D", "i", "e", "g", "o", ",", " ", "C", "A">>
    ELSE IF Includes(lower, <<"d", "a", "l", "l", "a", "s">>) THEN <<"D", "a", "l", "l", "a", "s", ",", " ", "T", "X">>
    ELSE IF Includes(lower, <<"s", "a", "n", " ", "j", "o", "s", "e">>)
    THEN <<"S", "a", "n", " ", "J", "o", "s", "e", ",", " ", "C", "A">>
    ELSE <<"N", "e", "w", " ", "Y", "o", "r", "k", ",", " ", "N", "Y">>

\* Regular expressions are matched on positions: a pattern takes the set of
\* positions a match may have reached to the set it may reach next, so that
\* the last set is empty exactly when the expression has no match.
Positions(str) == 1..(Len(str) + 1)

\* \d+
AfterDigits(str, from) ==
    {q \in Positions(str) :
        \E p \in from : p < q /\ \A k \in p..(q - 1) : IsDigit(str[k])}

\* A literal, matched without regard to case (flag i).
AfterLiteral(str, from, word) ==
    {q \in Positions(str) :
        \E p \in from :
            /\ q = p + Len(word)
            /\ ToLowerCase(SubSeq(str, p, q - 1)) = word}

AfterAnyLiteral(str, from, words) ==
    UNION {AfterLiteral(str, from, word) : word \in words}

\* \s*
AfterBlanks(str, from) ==
    {q \in Positions(str) :
        \E p \in from : p <= q /\ \A k \in p..(q - 1) : str[k] \in WhitespaceChars}

\* (\d+(?:\.\d+)?)
AfterNumber(str, from) ==
    LET whole == AfterDigits(str, from)
    IN  whole \cup AfterDigits(str, AfterLiteral(str, whole, <<".">>))

\* The units of areaRegex: feet|ft|ft2|meters|m2|metres|m|sq\s*ft
AreaUnits ==
    {<<"f", "e", "e", "t">>,
     <<"f", "t">>,
     <<"f", "t", "2">>,
     <<"m", "e", "t", "e", "r", "s">>,
     <<"m", "2">>,
     <<"m", "e", "t", "r", "e", "s">>,
     <<"m">>}

\* Lines 141-144: areaRegex, where description.matchAll(areaRegex) has a match.
AreaRegexMatches(str) ==
    LET number == AfterNumber(str, Positions(str))
        square == AfterLiteral(str, AfterBlanks(str, number), <<"s", "q", "u", "a", "r", "e">>)
        unit   == AfterBlanks(str, square)
        sqft   == AfterLiteral(str, AfterBlanks(str, AfterLiteral(str, unit, <<"s", "q">>)),
                               <<"f", "t">>)
    IN  AfterAnyLiteral(str, unit, AreaUnits) \cup sqft # {}

\* Lines 158-162: numberRegex, the first match of (\d+(?:\.\d+)?): the leftmost
\* digit, the digits that follow it, and a fraction when one follows. The
\* match is given as its first position, the end of its whole part and its
\* end.
FirstNumber(str) ==
    LET first == CHOOSE i \in 1..Len(str) :
                    IsDigit(str[i]) /\ \A k \in 1..(i - 1) : ~IsDigit(str[k])
        whole == CHOOSE q \in AfterDigits(str, {first}) :
                    \A q2 \in AfterDigits(str, {first}) : q2 <= q
        fracs == AfterDigits(str, AfterLiteral(str, {whole}, <<".">>))
        end   == IF fracs = {} THEN whole
                 ELSE CHOOSE q \in fracs : \A q2 \in fracs : q2 <= q
    IN  [first |-> first, whole |-> whole, end |-> end]

HasNumber(str) == \E i \in 1..Len(str) : IsDigit(str[i])

\* The value of a string of digits.
RECURSIVE DigitsValue(_)
DigitsValue(digits) ==
    IF Len(digits) = 0 THEN 0
    ELSE 10 * DigitsValue(SubSeq(digits, 1, Len(digits) - 1))
         + DigitValue(digits[Len(digits)])

\* parseFloat of a match of numberRegex, in tenths: the whole part and the
\* first digit of the fraction (the numbers tried have no further digits).
ParseFloatTenths(str, m) ==
    10 * DigitsValue(SubSeq(str, m.first, m.whole - 1))
    + (IF m.end > m.whole THEN DigitValue(str[m.whole + 1]) ELSE 0)

\* Line 164: Math.round(firstNumber * 0.092903), for a number given in
\* tenths; the product is taken in parts so that no part leaves 32 bits.
RoundSquareFeet(tenths) ==
    LET a  == tenths \div 1000000
        b  == (tenths % 1000000) \div 1000
        c  == tenths % 1000
        pa == a * 92903
        pb == b * 92903
    IN  (pa \div 10) + (pb \div 10000)
        + (((pa % 10) * 1000000 + (pb % 10000) * 1000 + c * 92903 + 5000000)
           \div 10000000)

\* Lines 90 and 169-173: the default and the bounds of the floor area.
MinFloorArea == 100
MaxFloorArea == 1000000
DefaultFloorArea == 5000

ClampFloorArea(area) ==
    IF area < MinFloorArea THEN MinFloorArea
    ELSE IF area > MaxFloorArea THEN MaxFloorArea
    ELSE area

\* parseBuildingDescription (lines 79-183). When areaRegex has a match,
\* line 148 reads match[2]; areaRegex has one capturing group, match[2] is
\* undefined and match[2].toLowerCase() throws a TypeError.
parseBuildingDescription(str) ==
    LET lower == ToLowerCase(str)
    IN  IF AreaRegexMatches(str)
        THEN [ok |-> FALSE, none |-> FALSE, error |-> "TypeError"]
        ELSE [ok |-> TRUE, none |-> FALSE,
              buildingType |-> BuildingTypeOf(lower),
              location |-> LocationOf(lower),
              floorArea |->
                  ClampFloorArea(
                      IF HasNumber(str)
                      THEN RoundSquareFeet(ParseFloatTenths(str, FirstNumber(str)))
                      ELSE DefaultFloorArea),
              description |-> str]

\* Line 199: validBuildingTypes
ValidBuildingTypes ==
    {<<"o", "f", "f", "i", "c", "e">>,
     <<"r", "e", "s", "i", "d", "e", "n", "t", "i", "a", "l">>,
     <<"r", "e", "t", "a", "i", "l">>,
     <<"e", "d", "u", "c", "a", "t", "i", "o", "n">>,
     <<"h", "e", "a", "l", "t", "h", "c", "a", "r", "e">>}

\* validateBuildingParameters (lines 190-222): the errors it collects.
ValidationErrors(params) ==
    (IF params.buildingType \notin ValidBuildingTypes THEN {"buildingType"} ELSE {})
    \cup (IF params.floorArea < MinFloorArea \/ params.floorArea > MaxFloorArea
          THEN {"floorArea"} ELSE {})
    \cup (IF Len(Trim(params.location)) = 0 THEN {"location"} ELSE {})

validateBuildingParameters(params) ==
    [isValid |-> ValidationErrors(params) = {}, errors |-> ValidationErrors(params)]

(***************************************************************************)
(* The path confiner applied to bounded inputs                             *)
(***************************************************************************)

MaxPathLen == 5

PathChars == {"/", ".", "m", "e"}

\* Base directories: absolute, nested, with a trailing separator, relative.
Bases == {<<"/", "m">>, <<"/", "m", "/", "e">>, <<"/", "m", "/">>, <<"m">>}

InitPath ==
    /\ inputPath \in StringsUpTo(PathChars, MaxPathLen)
    /\ basePath \in Bases
    /\ confined = None
    /\ arg = None
    /\ token = None
    /\ built = None
    /\ timeoutOption = None
    /\ timeoutDefault = None
    /\ spawnTimeout = None
    /\ simulationJobs = <<>>
    /\ runners = <<>>
    /\ nextJobId = 0
    /\ response = None
    /\ app = None
    /\ retrying = None
    /\ description = <<>>
    /\ parsed = None
    /\ commandCache = <<>>
    /\ now = 0
    /\ ticks = 0
    /\ calls = NoCalls
    /\ nextCall = 1
    /\ spawns = 0
    /\ lastSettled = 0
    /\ request = NoRequest
    /\ fpc = 0
    /\ locals = NoLocals
    /\ trace = <<>>
    /\ returned = Returned

Confine ==
    /\ confined = None
    /\ confined' = validateAndResolvePath(inputPath, basePath)
    /\ UNCHANGED <<inputPath, basePath>>

SpecPath ==
    /\ InitPath
    /\ [][Confine /\ UNCHANGED <<escVars, execVars, facadeVars, timeoutVars, serviceVars>>]_vars

\* The canonical paths the claims speak about.
CanonicalInput == ResolvedInput(inputPath, basePath)
CanonicalBase  == Resolve(<<basePath>>)

\* C1: every candidate whose canonical path is neither the canonical base
\* nor starts with the canonical base followed by the separator is rejected
\* with PATH_TRAVERSAL.
C1_ConfinementSound ==
    (/\ confined # None
     /\ CanonicalInput # CanonicalBase
     /\ ~StartsWith(CanonicalInput, CanonicalBase \o <<"/">>))
    => (~confined.ok /\ confined.code = "PATH_TRAVERSAL")

(***************************************************************************)
(* The argument escaper applied to bounded inputs                          *)
(***************************************************************************)

MaxArgLen == 3

\* A letter, safe punctuation characters, whitespace, and characters in
\* and outside the escaper's character class.
ArgChars == {"a", ",", "%", "-", " ", ";", "$", Backtick, "\"", "\\", "(", "_", "^"}

\* The numbers tried: integers, fractions, numbers written with an exponent,
\* and the values that are not finite.
NumberValues ==
    {JsNumber("integer", n) : n \in {0, 7, 42, 0 - 5, 1000}}
    \cup {JsNumber("tenths", n) : n \in {5, 31, 0 - 25}}
    \cup {JsNumber("e21", n) : n \in {1, 0 - 3}}
    \cup {JsNumber("e-7", n) : n \in {1, 0 - 3}}
    \cup {JsNumber(k, 0) : k \in {"NaN", "Infinity", "-Infinity"}}

ArgValues ==
    {JsNull, JsUndefined}
    \cup {JsString(s) : s \in StringsUpTo(ArgChars, MaxArgLen)}
    \cup NumberValues
    \cup {JsBoolean(b) : b \in BOOLEAN}

InitEscape ==
    /\ arg \in ArgValues
    /\ token = None
    /\ built = None
    /\ timeoutOption = None
    /\ timeoutDefault = None
    /\ spawnTimeout = None
    /\ simulationJobs = <<>>
    /\ runners = <<>>
    /\ nextJobId = 0
    /\ response = None
    /\ app = None
    /\ retrying = None
    /\ description = <<>>
    /\ parsed = None
    /\ inputPath = <<>>
    /\ basePath = <<>>
    /\ confined = None
    /\ commandCache = <<>>
    /\ now = 0
    /\ ticks = 0
    /\ calls = NoCalls
    /\ nextCall = 1
    /\ spawns = 0
    /\ lastSettled = 0
    /\ request = NoRequest
    /\ fpc = 0
    /\ locals = NoLocals
    /\ trace = <<>>
    /\ returned = Returned

Escape ==
    /\ token = None
    /\ token' = [ok |-> TRUE, none |-> FALSE, str |-> escapeArgument(arg)]
    /\ UNCHANGED <<arg, built>>

\* The arguments that follow the one tried: none, an empty string, a plain
\* word, a string with a blank.
FollowingArgs == {<< >>, << <<>> >>, << <<"a">> >>, << <<"a", " ", "a">> >>}

\* executeOpenStudioCommand (lines 222-224) builds the command of an
\* argument list: the string tried, and the arguments that follow it.
BuildCommand ==
    /\ built = None
    /\ arg.tag = "string"
    /\ \E rest \in FollowingArgs :
            built' = [ok |-> TRUE, none |-> FALSE,
                      args |-> <<arg.str>> \o rest,
                      command |-> CommandLine(<<arg.str>> \o rest)]
    /\ UNCHANGED <<arg, token>>

NextEscape == Escape \/ BuildCommand

SpecEscape ==
    /\ InitEscape
    /\ [][NextEscape /\ UNCHANGED <<pathVars, execVars, facadeVars, timeoutVars, serviceVars>>]_vars

\* The sets the escaper's contract names.
Letters ==
    {"a", "b", "c", "d", "e", "f", "g", "h", "i", "j", "k", "l", "m", "n",
     "o", "p", "q", "r", "s", "t", "u", "v", "w", "x", "y", "z",
     "A", "B", "C", "D", "E", "F", "G", "H", "I", "J", "K", "L", "M", "N",
     "O", "P", "Q", "R", "S", "T", "U", "V", "W", "X", "Y", "Z"}
Digits == {"0", "1", "2", "3", "4", "5", "6", "7", "8", "9"}
SafeChars == Letters \cup Digits \cup {".", ",", ":", "/", "=", "@", "%", "-"}
ContractMetaChars ==
    {";", "&", "|", "$", Backtick, "\"", "'", "\\", "<", ">", "(", ")", "{", "}",
     "[", "]", "!", "#", "*", "?"}

\* s with every character of the set cs preceded by a backslash.
RECURSIVE Backslashed(_, _, _)
Backslashed(s, cs, i) ==
    IF i > Len(s) THEN <<>>
    ELSE (IF s[i] \in cs THEN <<"\\", s[i]>> ELSE <<s[i]>>) \o Backslashed(s, cs, i + 1)

HasUnsafeChar(s) ==
    \E i \in 1..Len(s) : s[i] \in WhitespaceChars \/ s[i] \notin SafeChars

\* C2: a string with whitespace or a character outside the safe set is
\* returned in double quotes, with every metacharacter of the contract's set
\* preceded by a backslash.
C2_UnsafeStringQuotedAndEscaped ==
    (token # None /\ arg.tag = "string" /\ HasUnsafeChar(arg.str))
    => token.str = <<"\"">> \o Backslashed(arg.str, ContractMetaChars, 1) \o <<"\"">>

\* The positions of s a shell reads as plain characters inside double
\* quotes: a backslash takes the character after it with it. Position 0
\* stands for a backslash with nothing after it.
RECURSIVE PlainPositions(_, _)
PlainPositions(s, i) ==
    IF i > Len(s) THEN {}
    ELSE IF s[i] = "\\"
         THEN (IF i = Len(s) THEN {0} ELSE PlainPositions(s, i + 2))
    ELSE {i} \cup PlainPositions(s, i + 1)

\* The characters a shell interprets inside double quotes.
ActiveInDoubleQuotes == {"\"", "\\", "$", Backtick}

Interior(t) == SubSeq(t, 2, Len(t) - 1)

\* C3: a double-quoted token is closed only by its final character: inside
\* it every double quote and backslash (and every character the shell
\* interprets inside double quotes) is preceded by an escaping backslash,
\* and no token holds a double quote without being double-quoted.
C3_QuotedContextNotTerminated ==
    token # None =>
        /\ (\E i \in 1..Len(token.str) : token.str[i] = "\"")
              => (Len(token.str) >= 2 /\ token.str[1] = "\""
                    /\ token.str[Len(token.str)] = "\"")
        /\ (Len(token.str) > 0 /\ token.str[1] = "\"") =>
              \A i \in PlainPositions(Interior(token.str), 1) :
                  /\ i # 0
                  /\ Interior(token.str)[i] \notin ActiveInDoubleQuotes

C3_Witness ==
    /\ token # None
    /\ arg.tag = "string"
    /\ \E i, j \in 1..Len(arg.str) : arg.str[i] = "\"" /\ arg.str[j] = "\\"
    /\ token.str[1] = "\""

(***************************************************************************)
(* The timeout of a spawn, for bounded inputs                              *)
(***************************************************************************)

MaxEnvLen == 2

EnvChars == {"0", "3", "-", "x"}

\* options.timeout: absent, zero, negative, positive.
TimeoutOptions == {JsUndefV, JsNum(0), JsNum(0 - 1), JsNum(5000)}

InitTimeout ==
    /\ timeoutOption \in TimeoutOptions
    /\ timeoutDefault \in {EnvUnset} \cup {EnvSet(str) : str \in StringsUpTo(EnvChars, MaxEnvLen)}
    /\ spawnTimeout = None
    /\ simulationJobs = <<>>
    /\ runners = <<>>
    /\ nextJobId = 0
    /\ response = None
    /\ app = None
    /\ retrying = None
    /\ description = <<>>
    /\ parsed = None
    /\ inputPath = <<>>
    /\ basePath = <<>>
    /\ confined = None
    /\ arg = None
    /\ token = None
    /\ built = None
    /\ commandCache = <<>>
    /\ now = 0
    /\ ticks = 0
    /\ calls = NoCalls
    /\ nextCall = 1
    /\ spawns = 0
    /\ lastSettled = 0
    /\ request = NoRequest
    /\ fpc = 0
    /\ locals = NoLocals
    /\ trace = <<>>
    /\ returned = Returned

\* executeCommand reaches line 147 and calls execPromise with the timeout.
SpawnWithTimeout ==
    /\ spawnTimeout = None
    /\ spawnTimeout' =
          [ok |-> TRUE, none |-> FALSE,
           timeout |-> ResolveTimeout(timeoutOption, timeoutDefault),
           effect |-> TimeoutEffect(ResolveTimeout(timeoutOption, timeoutDefault))]
    /\ UNCHANGED <<timeoutOption, timeoutDefault>>

SpecTimeout ==
    /\ InitTimeout
    /\ [][SpawnWithTimeout /\ UNCHANGED <<pathVars, escVars, execVars, facadeVars, serviceVars>>]_vars

(***************************************************************************)
(* The execution engine under concurrent calls                             *)
(***************************************************************************)

\* The cache is empty or holds the results of earlier executions.
Init ==
    /\ commandCache \in {WarmCache(n) : n \in WarmSizes}
    /\ now = 0
    /\ ticks = 0
    /\ calls = NoCalls
    /\ nextCall = 1
    /\ spawns = 0
    /\ lastSettled = 0
    /\ inputPath = <<>>
    /\ basePath = <<>>
    /\ confined = None
    /\ arg = None
    /\ token = None
    /\ built = None
    /\ timeoutOption = None
    /\ timeoutDefault = None
    /\ spawnTimeout = None
    /\ simulationJobs = <<>>
    /\ runners = <<>>
    /\ nextJobId = 0
    /\ response = None
    /\ app = None
    /\ retrying = None
    /\ description = <<>>
    /\ parsed = None
    /\ request = NoRequest
    /\ fpc = 0
    /\ locals = NoLocals
    /\ trace = <<>>
    /\ returned = Returned

Spec ==
    /\ Init
    /\ [][NextExec /\ UNCHANGED <<pathVars, escVars, facadeVars, timeoutVars, serviceVars>>]_vars

(***************************************************************************)
(* The engine with caching calls whose commands and directories hold the   *)
(* separator of the cache key, three calls in flight, on an empty cache    *)
(***************************************************************************)

MaxKeyCalls == 3

KeyCallIds == 1..MaxKeyCalls

\* Caching requests: a command in a directory named ":", the command ending
\* in ":" with no directory, and the plain command with no directory.
KeyRequests ==
    {Request(<<"v">>, <<":">>, TRUE), Request(<<"v", ":">>, <<>>, TRUE),
     Request(<<"v">>, <<>>, TRUE)}

InitKeys ==
    /\ commandCache = <<>>
    /\ now = 0
    /\ ticks = 0
    /\ calls = [i \in KeyCallIds |-> IdleCall]
    /\ nextCall = 1
    /\ spawns = 0
    /\ lastSettled = 0
    /\ inputPath = <<>>
    /\ basePath = <<>>
    /\ confined = None
    /\ arg = None
    /\ token = None
    /\ built = None
    /\ timeoutOption = None
    /\ timeoutDefault = None
    /\ spawnTimeout = None
    /\ simulationJobs = <<>>
    /\ runners = <<>>
    /\ nextJobId = 0
    /\ response = None
    /\ app = None
    /\ retrying = None
    /\ description = <<>>
    /\ parsed = None
    /\ request = NoRequest
    /\ fpc = 0
    /\ locals = NoLocals
    /\ trace = <<>>
    /\ returned = Returned

StartKeyCall ==
    /\ nextCall \in KeyCallIds
    /\ nextCall' = nextCall + 1
    /\ \E r \in KeyRequests : ExecuteStart(nextCall, r.command, r.cwd, r.useCache)

SettleKeyCall ==
    /\ \E i \in KeyCallIds, kind \in ProcessOutcomes : ExecuteSettle(i, kind)
    /\ UNCHANGED nextCall

NextKeys == StartKeyCall \/ SettleKeyCall \/ Advance

SpecKeys ==
    /\ InitKeys
    /\ [][NextKeys /\ UNCHANGED <<pathVars, escVars, facadeVars, timeoutVars, serviceVars>>]_vars

(***************************************************************************)
(* The simulations router and the background runs of its jobs              *)
(***************************************************************************)

InitJobs ==
    /\ simulationJobs = [id \in JobIds |-> AbsentJob]
    /\ runners = [id \in JobIds |-> NoRunner]
    /\ nextJobId = 1
    /\ response = NoResponse
    /\ app = None
    /\ retrying = None
    /\ description = <<>>
    /\ parsed = None
    /\ inputPath = <<>>
    /\ basePath = <<>>
    /\ confined = None
    /\ arg = None
    /\ token = None
    /\ built = None
    /\ timeoutOption = None
    /\ timeoutDefault = None
    /\ spawnTimeout = None
    /\ commandCache = <<>>
    /\ now = 0
    /\ ticks = 0
    /\ calls = NoCalls
    /\ nextCall = 1
    /\ spawns = 0
    /\ lastSettled = 0
    /\ request = NoRequest
    /\ fpc = 0
    /\ locals = NoLocals
    /\ trace = <<>>
    /\ returned = Returned

SpecJobs ==
    /\ InitJobs
    /\ [][NextJobs /\ UNCHANGED <<pathVars, escVars, execVars, facadeVars, timeoutVars,
                                  app, retrying, nlpVars>>]_vars

(***************************************************************************)
(* The application orchestrator: calls of start and stop                   *)
(***************************************************************************)

InitApp ==
    /\ app \in {NewApp(mcpEnabled) : mcpEnabled \in BOOLEAN}
    /\ simulationJobs = <<>>
    /\ runners = <<>>
    /\ nextJobId = 0
    /\ response = None
    /\ retrying = None
    /\ description = <<>>
    /\ parsed = None
    /\ inputPath = <<>>
    /\ basePath = <<>>
    /\ confined = None
    /\ arg = None
    /\ token = None
    /\ built = None
    /\ timeoutOption = None
    /\ timeoutDefault = None
    /\ spawnTimeout = None
    /\ commandCache = <<>>
    /\ now = 0
    /\ ticks = 0
    /\ calls = NoCalls
    /\ nextCall = 1
    /\ spawns = 0
    /\ lastSettled = 0
    /\ request = NoRequest
    /\ fpc = 0
    /\ locals = NoLocals
    /\ trace = <<>>
    /\ returned = Returned

SpecApp ==
    /\ InitApp
    /\ [][NextApp /\ UNCHANGED <<pathVars, escVars, execVars, facadeVars, timeoutVars,
                                 jobVars, retrying, nlpVars>>]_vars

(***************************************************************************)
(* retry applied to a function that may fail                               *)
(***************************************************************************)

\* The delays tried, in milliseconds: none, and the default.
RetryDelays == {0, 1000}

InitRetry ==
    /\ retrying \in {NewRetry(m, d) : m \in 0..MaxRetryAttempts, d \in RetryDelays}
    /\ app = None
    /\ simulationJobs = <<>>
    /\ runners = <<>>
    /\ nextJobId = 0
    /\ response = None
    /\ description = <<>>
    /\ parsed = None
    /\ inputPath = <<>>
    /\ basePath = <<>>
    /\ confined = None
    /\ arg = None
    /\ token = None
    /\ built = None
    /\ timeoutOption = None
    /\ timeoutDefault = None
    /\ spawnTimeout = None
    /\ commandCache = <<>>
    /\ now = 0
    /\ ticks = 0
    /\ calls = NoCalls
    /\ nextCall = 1
    /\ spawns = 0
    /\ lastSettled = 0
    /\ request = NoRequest
    /\ fpc = 0
    /\ locals = NoLocals
    /\ trace = <<>>
    /\ returned = Returned

SpecRetry ==
    /\ InitRetry
    /\ [][NextRetry /\ UNCHANGED <<pathVars, escVars, execVars, facadeVars, timeoutVars,
                                   jobVars, app, nlpVars>>]_vars

(***************************************************************************)
(* The parser applied to bounded descriptions                              *)
(***************************************************************************)

\* A description is a number, what stands between it and a unit, a unit and
\* further words, each of them possibly missing.
DescNumbers ==
    {<<>>,
     <<"7">>,
     <<"5", "0", "0", "0">>,
     <<"1", "2", "0", "0", ".", "5">>,
     <<"2", "0", "0", "0", "0", "0", "0", "0">>}
DescJoints ==
    {<<>>,
     <<" ">>,
     <<" ", "s", "q", "u", "a", "r", "e", " ">>,
     <<"S", "Q", "U", "A", "R", "E">>}
DescUnits ==
    {<<>>,
     <<"f", "e", "e", "t">>,
     <<"m">>,
     <<"f", "t", "2">>,
     <<"s", "q", " ", "f", "t">>}
DescWords ==
    {<<>>,
     <<" ", "O", "f", "f", "i", "c", "e">>,
     <<" ", "s", "h", "o", "p", " ", "i", "n", " ", "D", "a", "l", "l", "a", "s">>,
     <<" ", "h", "o", "m", "e", ",", " ", "C", "h", "i", "c", "a", "g", "o">>,
     <<" ", "l", "a", "b">>}

Descriptions ==
    {n \o j \o u \o w : n \in DescNumbers, j \in DescJoints, u \in DescUnits,
                        w \in DescWords}

InitParse ==
    /\ description \in Descriptions
    /\ parsed = None
    /\ retrying = None
    /\ app = None
    /\ simulationJobs = <<>>
    /\ runners = <<>>
    /\ nextJobId = 0
    /\ response = None
    /\ inputPath = <<>>
    /\ basePath = <<>>
    /\ confined = None
    /\ arg = None
    /\ token = None
    /\ built = None
    /\ timeoutOption = None
    /\ timeoutDefault = None
    /\ spawnTimeout = None
    /\ commandCache = <<>>
    /\ now = 0
    /\ ticks = 0
    /\ calls = NoCalls
    /\ nextCall = 1
    /\ spawns = 0
    /\ lastSettled = 0
    /\ request = NoRequest
    /\ fpc = 0
    /\ locals = NoLocals
    /\ trace = <<>>
    /\ returned = Returned

\* handleCreateEnergyModelNLP (part_004, line 878) parses the
\* description.
ParseDescription ==
    /\ parsed = None
    /\ parsed' = parseBuildingDescription(description)
    /\ UNCHANGED description

SpecParse ==
    /\ InitParse
    /\ [][ParseDescription /\ UNCHANGED <<pathVars, escVars, execVars, facadeVars,
                                          timeoutVars, jobVars, app, retrying>>]_vars

(***************************************************************************)
(* One facade operation, on an empty cache                                 *)
(***************************************************************************)

InitFacade ==
    /\ request \in FacadeRequests
    /\ fpc = 1
    /\ locals = NoLocals
    /\ trace = <<>>
    /\ returned = Pending
    /\ commandCache = <<>>
    /\ now = 0
    /\ ticks = 0
    /\ calls = NoCalls
    /\ nextCall = 1
    /\ spawns = 0
    /\ lastSettled = 0
    /\ inputPath = <<>>
    /\ basePath = <<>>
    /\ confined = None
    /\ arg = None
    /\ token = None
    /\ built = None
    /\ timeoutOption = None
    /\ timeoutDefault = None
    /\ spawnTimeout = None
    /\ simulationJobs = <<>>
    /\ runners = <<>>
    /\ nextJobId = 0
    /\ response = None
    /\ app = None
    /\ retrying = None
    /\ description = <<>>
    /\ parsed = None

SpecFacade ==
    /\ InitFacade
    /\ [][NextFacade /\ UNCHANGED <<pathVars, escVars, timeoutVars, serviceVars>>]_vars

SameRequest(a, b) ==
    /\ a.command = b.command
    /\ a.cwd = b.cwd
    /\ a.useCache = b.useCache

\* Call j starts in this step.
Starts(j) == calls[j].state = "idle" /\ calls'[j].state # "idle"

\* Call j, which spawned a process, completes in this step.
Settles(j) == calls[j].state = "running" /\ calls'[j].state = "done"

\* C4: a caching call that starts after a caching call with the same command
\* and cwd has completed (nothing stored in the cache since), within the TTL,
\* spawns no process and returns at once what the first call returned.
C4_SecondCallServedFromCache ==
    [][\A i, j \in CallIds :
        (/\ calls[i].state = "done" /\ calls[i].spawned /\ calls[i].useCache
         /\ lastSettled = i
         /\ Starts(j) /\ SameRequest(calls'[j], calls[i])
         /\ now - calls[i].endTime < CACHE_TTL)
        => (/\ calls'[j].state = "done"
            /\ ~calls'[j].spawned
            /\ spawns' = spawns
            /\ calls'[j].how = "resolved"
            /\ calls'[j].result = calls[i].result)]_vars

C4_Witness ==
    \E i, j \in CallIds :
        /\ i # j
        /\ calls[i].state = "done" /\ calls[i].spawned /\ calls[i].useCache
        /\ calls[j].state = "done" /\ ~calls[j].spawned
        /\ SameRequest(calls[j], calls[i])
        /\ calls[j].result = calls[i].result
        /\ spawns = 1

\* The entries of the cache that have not expired at time t.
Live(cache, t) == {k \in 1..Len(cache) : t - cache[k].timestamp < CACHE_TTL}

\* The unexpired entries this step removes from the cache.
RemovedLive ==
    {k \in Live(commandCache, now) : commandCache[k].key \notin CacheKeys(commandCache')}

Earliest(ks) == CHOOSE k \in ks : \A m \in ks : k <= m

\* C5: the cache never holds more than MAX_CACHE_SIZE entries, and an
\* unexpired entry is removed only to make room at capacity, when it is the
\* earliest-inserted entry present; storing a new key at capacity removes
\* exactly that entry.
C5_BoundedFifoCache ==
    /\ [](Len(commandCache) <= MAX_CACHE_SIZE)
    /\ [][/\ RemovedLive # {} =>
                /\ Cardinality(Live(commandCache, now)) = MAX_CACHE_SIZE
                /\ RemovedLive = {Earliest(Live(commandCache, now))}
          /\ (/\ Cardinality(Live(commandCache, now)) = MAX_CACHE_SIZE
              /\ CacheKeys(commandCache') \ CacheKeys(commandCache) # {})
                => RemovedLive = {Earliest(Live(commandCache, now))}]_vars

C5_Witness ==
    /\ Len(commandCache) = MAX_CACHE_SIZE
    /\ commandCache[1].key = cacheKey(WarmCommand(2), <<>>, TRUE)
    /\ \E i \in CallIds : calls[i].state = "done" /\ calls[i].spawned /\ lastSettled = i

\* C6: a caching call is served from the cache only by an entry younger than
\* the TTL; one that finds an entry of age >= TTL deletes it and spawns the
\* process, and its result is stored when the process has ended.
C6_ExpiredEntryIsAMiss ==
    [][\A j \in CallIds :
        LET key == cacheKey(calls'[j].command, calls'[j].cwd, calls'[j].useCache)
        IN  /\ (Starts(j) /\ calls'[j].useCache /\ CacheHas(commandCache, key)
                  /\ now - CacheGet(commandCache, key).timestamp >= CACHE_TTL)
                => (/\ calls'[j].state = "running" /\ calls'[j].spawned
                    /\ spawns' = spawns + 1
                    /\ ~CacheHas(commandCache', key))
            /\ (Starts(j) /\ calls'[j].state = "done")
                => (/\ calls'[j].useCache /\ CacheHas(commandCache, key)
                    /\ now - CacheGet(commandCache, key).timestamp < CACHE_TTL)
            /\ (Settles(j) /\ calls[j].useCache)
                => (/\ CacheHas(commandCache', key)
                    /\ CacheGet(commandCache', key).timestamp = now
                    /\ CacheGet(commandCache', key).stdout = calls'[j].result.stdout
                    /\ CacheGet(commandCache', key).stderr = calls'[j].result.stderr
                    /\ CacheGet(commandCache', key).code = calls'[j].result.code)]_vars

\* A second execution of a request whose first result had expired: both
\* spawned, the second after the first had ended, and the second result is
\* the entry now stored.
C6_Witness ==
    \E i, j \in CallIds :
        /\ i # j
        /\ calls[i].state = "done" /\ calls[i].spawned /\ calls[i].useCache
        /\ calls[j].state = "done" /\ calls[j].spawned
        /\ SameRequest(calls[j], calls[i])
        /\ calls[j].endTime - calls[i].endTime >= CACHE_TTL
        /\ lastSettled = j
        /\ calls[i].outcome = "exit0" /\ calls[j].outcome = "exitNonZero"

FailureOutcomes == {"exitNonZero", "timeout", "spawnError", "maxBuffer"}

\* C7: the promise of executeCommand never rejects: a call whose process
\* failed (non-zero exit, timeout, spawn failure) resolves with a result whose
\* code is not 0.
C7_NeverRejects ==
    \A i \in CallIds :
        calls[i].state = "done" =>
            /\ calls[i].how = "resolved"
            /\ calls[i].outcome \in FailureOutcomes => calls[i].result.code # JsNum(0)

C7_Witness ==
    \E i, j \in CallIds :
        /\ calls[i].state = "done" /\ calls[i].spawned /\ calls[i].outcome = "timeout"
        /\ calls[j].state = "done" /\ calls[j].spawned /\ calls[j].outcome = "spawnError"

\* Does the text say that the process timed out.
TimeoutAnnotated(text) ==
    \E k \in 1..Len(text) : text[k] \in {"timeout", "timed out", "ETIMEDOUT"}

\* C8: a call whose process exceeded its timeout returns the exit code null
\* and a stderr annotated as a timeout.
C8_TimeoutReportedAsNull ==
    \A i \in CallIds :
        (calls[i].state = "done" /\ calls[i].spawned /\ calls[i].outcome = "timeout")
        => (/\ calls[i].result.code = JsNullV
            /\ TimeoutAnnotated(calls[i].result.stderr))

\* C9: a returned code is 0 exactly when the process that produced the result
\* ran to completion with exit status 0.
C9_CodeZeroIffSuccess ==
    \A i \in CallIds :
        calls[i].state = "done" =>
            (calls[i].result.code = JsNum(0) <=> calls[i].outcome = "exit0")

C9_Witness ==
    \E i, j \in CallIds :
        /\ calls[i].state = "done" /\ calls[i].outcome = "timeout"
        /\ calls[i].result.code # JsNum(0)
        /\ calls[j].state = "done" /\ calls[j].outcome = "exit0"
        /\ calls[j].result.code = JsNum(0)

\* The events of the trace in which a path reaches the command line or a
\* filesystem call.
SinkEvents == {"ensureDirectory", "access", "readFile", "argument", "executeCommand"}

\* p is a path validateAndResolvePath returns for the root.
ConfinedTo(p, root) ==
    LET r == validateAndResolvePath(p, RootPath(root))
    IN  r.ok /\ r.path = p

\* C10: every path that reaches the command line or a filesystem call is a
\* path validateAndResolvePath returns for the matching root.
C10_EveryPathConfined ==
    \A k \in 1..Len(trace) :
        (trace[k].ev \in SinkEvents /\ trace[k].root # "")
        => ConfinedTo(trace[k].path, trace[k].root)

\* The operations with side effects, and the validation lookups.
MutatingOperations == {"createOpenStudioModel", "runEnergySimulation", "exportToRadiance"}
ValidationOperations == {"validateModelASHRAE", "validateModelLEED"}

\* The executeCommand calls the operation has started, over all its runs.
StartedCalls == 1..(nextCall - 1)

\* C11: create, simulate and export call the engine with useCache = false:
\* every such call spawns a process and the cache is never read or written
\* by them; useCache = true is passed by the two validations only.
C11_MutatingOperationsBypassCache ==
    /\ \A k \in 1..Len(trace) :
            trace[k].ev = "executeCommand" =>
                /\ request.op \in MutatingOperations => ~trace[k].flag
                /\ trace[k].flag => request.op \in ValidationOperations
    /\ request.op \in MutatingOperations =>
            /\ commandCache = <<>>
            /\ spawns = nextCall - 1
            /\ \A i \in StartedCalls : calls[i].spawned /\ ~calls[i].useCache

\* The export has run twice to its end: two processes, nothing cached.
C11_Witness ==
    /\ request.op = "exportToRadiance"
    /\ nextCall = 3
    /\ calls[1].state = "done" /\ calls[2].state = "done"
    /\ calls[1].command = calls[2].command
    /\ spawns = 2
    /\ commandCache = <<>>
    /\ returned = Returned

\* Does the text end with the given text.
EndsWith(s, suffix) ==
    /\ Len(suffix) <= Len(s)
    /\ SubSeq(s, Len(s) - Len(suffix) + 1, Len(s)) = suffix

\* C12: a candidate whose canonical path does not begin with the canonical
\* base is rejected; a rejection is an AppError with code PATH_TRAVERSAL and
\* status 400 whose message ends with the input as given, and has no path;
\* a returned path is the canonical candidate, never another path.
C12_RejectionThrowsPathTraversal ==
    confined # None =>
        /\ ~StartsWith(CanonicalInput, CanonicalBase) => ~confined.ok
        /\ ~confined.ok =>
                /\ confined.code = "PATH_TRAVERSAL"
                /\ confined.status = 400
                /\ EndsWith(confined.message, inputPath)
                /\ Len(confined.message) = Len(inputPath) + 1
                /\ "path" \notin DOMAIN confined
        /\ confined.ok => confined.path = CanonicalInput

\* The relative traversal ../.. has been rejected.
C12_Witness ==
    /\ confined # None
    /\ inputPath = <<".", ".", "/", ".", ".">>
    /\ basePath = <<"/", "m">>
    /\ ~confined.ok
    /\ confined.code = "PATH_TRAVERSAL"

\* The candidate as the contract canonicalizes it: itself when absolute,
\* joined to the base when relative.
JoinedCandidate ==
    IF IsAbsolute(inputPath) THEN inputPath ELSE basePath \o <<"/">> \o inputPath

ExpectedPath == Resolve(<<JoinedCandidate>>)

\* C13: a candidate that is the base or a descendant of it is accepted, and
\* the path returned is its canonical absolute path.
C13_InsideCandidateAccepted ==
    (/\ confined # None
     /\ \/ ExpectedPath = CanonicalBase
        \/ StartsWith(ExpectedPath, CanonicalBase \o <<"/">>))
    => (confined.ok /\ confined.path = ExpectedPath)

\* The relative candidate e below the base /m has been accepted as /m/e.
C13_Witness ==
    /\ confined # None
    /\ inputPath = <<"e">>
    /\ basePath = <<"/", "m">>
    /\ confined.ok
    /\ confined.path = <<"/", "m", "/", "e">>

\* The operations that invoke the engine, and the error code of each.
EngineOperations == Operations \ {"getSimulationResults"}

DomainErrorCode(op) ==
    CASE op = "createOpenStudioModel" -> "OPENSTUDIO_ERROR"
      [] op = "runEnergySimulation"   -> "SIMULATION_ERROR"
      [] op = "validateModelASHRAE"   -> "VALIDATION_ERROR"
      [] op = "exportToRadiance"      -> "EXPORT_ERROR"
      [] op = "validateModelLEED"     -> "LEED_VALIDATION_ERROR"

\* C14: an operation whose engine call returned a code other than 0 ends by
\* throwing the AppError of its domain, with status 500 and a message that
\* ends with the stderr of the result; an operation that invokes the engine
\* returns its value only after a result with code 0.
C14_FailureBecomesDomainError ==
    /\ (/\ CallMade
         /\ TheCall.state = "done"
         /\ TheCall.result.code # JsNum(0)
         /\ returned # Pending)
        => (/\ returned.status = "threw"
            /\ returned.code = DomainErrorCode(request.op)
            /\ returned.httpStatus = 500
            /\ EndsWith(returned.message, TheCall.result.stderr)
            /\ Len(returned.message) = Len(TheCall.result.stderr) + 1)
    /\ (returned.status = "returned" /\ request.op \in EngineOperations)
        => (/\ CallMade
            /\ TheCall.state = "done"
            /\ TheCall.result.code = JsNum(0))

\* A simulation whose process was killed on timeout has thrown
\* SIMULATION_ERROR.
C14_Witness ==
    /\ request.op = "runEnergySimulation"
    /\ CallMade
    /\ TheCall.state = "done"
    /\ TheCall.outcome = "timeout"
    /\ returned.status = "threw"
    /\ returned.code = "SIMULATION_ERROR"
    /\ Len(TheCall.result.stderr) > 0

\* C15: a call with useCache = false spawns its own process, and neither its
\* start nor its completion changes the cache, whatever the cache holds.
C15_UncachedCallLeavesCacheAlone ==
    [][\A j \in CallIds :
        /\ (Starts(j) /\ ~calls'[j].useCache)
            => (/\ calls'[j].state = "running" /\ calls'[j].spawned
                /\ spawns' = spawns + 1
                /\ commandCache' = commandCache)
        /\ (Settles(j) /\ ~calls[j].useCache)
            => commandCache' = commandCache]_vars

\* An uncached call of a command has spawned and ended while the result of a
\* caching call of the same command and cwd is in the cache.
C15_Witness ==
    \E i, j \in CallIds :
        /\ calls[i].state = "done" /\ calls[i].spawned /\ calls[i].useCache
        /\ calls[j].state = "done" /\ calls[j].spawned /\ ~calls[j].useCache
        /\ calls[j].command = calls[i].command /\ calls[j].cwd = calls[i].cwd
        /\ calls[j].endTime > calls[i].endTime
        /\ calls[j].endTime - calls[i].endTime < CACHE_TTL
        /\ CacheHas(commandCache, cacheKey(calls[i].command, calls[i].cwd, TRUE))
        /\ spawns = 2

FreshResults(command) ==
    {Settle(ExecSettlement(kind, command)).value : kind \in ProcessOutcomes}

\* C17: a result served from the cache is the result an execution of the
\* process at that moment returns, so that a call returns the same stdout,
\* stderr and code with the cache and without it.
C17_CachedResultEqualsFreshExecution ==
    [][\A j \in CallIds :
        (Starts(j) /\ calls'[j].state = "done")
        => \A fresh \in FreshResults(calls'[j].command) : calls'[j].result = fresh]_vars

\* C18: a caching call that starts while a caching call with the same
\* command and cwd is still running (and no valid result for that key is in
\* the cache) spawns a process of its own.
C18_NoInFlightDeduplication ==
    [][\A i, j \in CallIds :
        LET key == cacheKey(calls[i].command, calls[i].cwd, TRUE)
        IN  (/\ i # j
             /\ calls[i].state = "running" /\ calls[i].useCache
             /\ Starts(j) /\ SameRequest(calls'[j], calls[i])
             /\ ~(/\ CacheHas(commandCache, key)
                  /\ now - CacheGet(commandCache, key).timestamp < CACHE_TTL))
            => (/\ calls'[j].state = "running"
                /\ calls'[j].spawned
                /\ spawns' = spawns + 1)]_vars

\* Two caching calls of the same command and cwd in flight, two processes.
C18_Witness ==
    /\ calls[1].state = "running" /\ calls[2].state = "running"
    /\ calls[1].useCache
    /\ SameRequest(calls[2], calls[1])
    /\ calls[1].spawned /\ calls[2].spawned
    /\ spawns = 2

\* The candidate lies in the root: its canonical path is the canonical root
\* or begins with the root followed by the separator.
InsideRoot(p, root) ==
    LET candidate == ResolvedInput(p, RootPath(root))
        base      == Resolve(<<RootPath(root)>>)
    IN  candidate = base \/ StartsWith(candidate, base \o <<"/">>)

\* The confinements of the operation come before its engine call, and a
\* confinement that threw is followed by no engine call.
ConfinementsPrecedeEngineCall ==
    /\ \A k, l \in 1..Len(trace) :
            (trace[k].ev = "confine" /\ trace[l].ev = "executeCommand") => k < l
    /\ (\E k \in 1..Len(trace) : trace[k].ev = "confine" /\ ~trace[k].flag)
            => ~CallMade

\* C19: every validateAndResolvePath call of an operation completes before
\* executeOpenStudioCommand is invoked, and an operation given a path that
\* lies outside its root never invokes it.
C19_ViolationBeforeAnySpawn ==
    /\ ConfinementsPrecedeEngineCall
    /\ \A n \in 1..Len(Program(request)) :
            (/\ Program(request)[n].do = "confine"
             /\ ~InsideRoot(Program(request)[n].value, Program(request)[n].root))
            => ~CallMade

\* C20: a string made of characters of the safe set only (letters, digits
\* and . , : / = @ % -) is returned as it is: no quotes, nothing inserted.
C20_SafeStringUnchanged ==
    /\ \A c \in SafeChars : escapeArgument(JsString(<<c>>)) = <<c>>
    /\ (/\ token # None
         /\ arg.tag = "string"
         /\ \A i \in 1..Len(arg.str) : arg.str[i] \in SafeChars)
        => token.str = arg.str

\* The safe string a-% has been escaped, and came back as it is.
C20_Witness ==
    /\ token # None
    /\ arg = JsString(<<"a", "-", "%">>)
    /\ token.str = <<"a", "-", "%">>

\* C21: null and undefined give the empty string; a number or a boolean
\* gives its stringified value, without quotes and without backslashes.
C21_NonStringValues ==
    token # None =>
        /\ arg.tag \in {"null", "undefined"} => token.str = <<>>
        /\ arg.tag \in {"number", "boolean"} =>
                /\ token.str = StringOf(arg)
                /\ \A i \in 1..Len(token.str) : token.str[i] \notin {"\"", "\\"}
        /\ arg = JsBoolean(TRUE) => token.str = <<"t", "r", "u", "e">>
        /\ arg = JsNumber("integer", 42) => token.str = <<"4", "2">>
        /\ arg = JsNumber("tenths", 31) => token.str = <<"3", ".", "1">>

\* The number -3e21 has been escaped.
C21_Witness ==
    /\ token # None
    /\ arg = JsNumber("e21", 0 - 3)
    /\ token.str = <<"-", "3", "e", "+", "2", "1">>

\* The string has whitespace and no character of the contract's
\* metacharacter set.
BlankButNoMetaChar(s) ==
    /\ \E i \in 1..Len(s) : s[i] \in WhitespaceChars
    /\ \A i \in 1..Len(s) : s[i] \notin ContractMetaChars

\* C22: a string with whitespace and no shell metacharacter is returned
\* between one pair of double quotes with nothing changed inside, and on the
\* command line of executeOpenStudioCommand it is one word, which the shell
\* hands to the process as the string itself.
C22_BlankStringQuotedAndPassedUnchanged ==
    /\ (token # None /\ arg.tag = "string" /\ BlankButNoMetaChar(arg.str))
        => token.str = <<"\"">> \o arg.str \o <<"\"">>
    /\ (built # None /\ BlankButNoMetaChar(built.args[1]) /\ Len(built.args) = 1)
        => ShellSplit(built.command) = <<openStudioBin, built.args[1]>>

\* C23: the timeout passed to the spawn is options.timeout when given,
\* otherwise the value of TIMEOUT_DEFAULT when set, otherwise 300000; it is
\* always a positive number of milliseconds, so that the process is bounded.
C23_SpawnTimeoutPositive ==
    spawnTimeout # None =>
        /\ timeoutOption # JsUndefV => spawnTimeout.timeout = timeoutOption
        /\ (timeoutOption = JsUndefV /\ ~timeoutDefault.set)
                => spawnTimeout.timeout = JsNum(300000)
        /\ (timeoutOption = JsUndefV /\ timeoutDefault = EnvSet(<<"3", "0">>))
                => spawnTimeout.timeout = JsNum(30)
        /\ spawnTimeout.timeout.t = "number"
        /\ spawnTimeout.timeout.v > 0
        /\ spawnTimeout.effect = "bounded"


\* C24: when executeOpenStudioCommand is given a cwd, ensureDirectory(cwd) has
\* completed before executeCommand spawns the process: in the trace of the
\* operation every engine call with a cwd comes after an ensureDirectory of
\* that same directory made by executeOpenStudioCommand itself, with only the
\* escaping of the arguments between the two.
C24_CwdEnsuredBeforeSpawn ==
    \A k \in 1..Len(trace) :
        (trace[k].ev = "executeCommand" /\ trace[k].path # <<>>) =>
            \E j \in 1..(k - 1) :
                /\ trace[j].ev = "ensureDirectory"
                /\ trace[j].path = trace[k].path
                /\ \A m \in (j + 1)..(k - 1) : trace[m].ev = "argument"

\* C24 witness: an operation has spawned its process in a working directory.
C24_Witness ==
    /\ spawns > 0
    /\ \E k \in 1..Len(trace) :
        /\ trace[k].ev = "executeCommand"
        /\ trace[k].path # <<>>
        /\ \E j \in 1..(k - 1) : trace[j].ev = "ensureDirectory" /\ trace[j].path = trace[k].path


\* A call that was answered from the cache: it is done and spawned nothing.
IsCacheHit(c) == c.state = "done" /\ ~c.spawned

RejectedBeforeSpawn ==
    /\ returned.status = "threw"
    /\ returned.code \in {"PATH_TRAVERSAL", "NOT_FOUND"}
    /\ ~CallMade

\* An ensureDirectory that found no directory and created it.
CreatesDirectory(e) == e.ev = "ensureDirectory" /\ ~e.flag

\* C26: an operation rejected before spawning (PATH_TRAVERSAL on any path
\* parameter, the weather file included, or NotFoundError for a missing
\* model file) has created no directory: every confinement and existence
\* check of the operation precedes every ensureDirectory call.
C26_RejectedRequestCreatesNoDirectory ==
    /\ RejectedBeforeSpawn =>
           \A k \in 1..Len(trace) : ~CreatesDirectory(trace[k])
    /\ \A j, k \in 1..Len(trace) :
           (trace[j].ev = "ensureDirectory" /\ trace[k].ev \in {"confine", "access"})
               => k < j


\* C27: the cache key is injective: a call answered from the cache receives
\* the result of an execution of its own request, one with the same
\* command string and the same cwd; no two distinct (command, cwd) pairs
\* share a key, so no call receives the cached result of another request.
C27_HitComesFromSameRequest ==
    \A i \in DOMAIN calls :
        IsCacheHit(calls[i]) =>
            \E k \in DOMAIN calls :
                /\ calls[k].state = "done"
                /\ calls[k].spawned
                /\ calls[k].useCache
                /\ calls[k].command = calls[i].command
                /\ calls[k].cwd = calls[i].cwd


\* C28: the iteration order of the cache, which is its eviction order, is
\* non-decreasing in the timestamps of the entries in every interleaving, so
\* the first entry, the one a capacity eviction deletes, is one with the
\* oldest timestamp.
C28_CacheOrderedByTimestamp ==
    \A j, k \in 1..Len(commandCache) :
        j < k => commandCache[j].timestamp <= commandCache[k].timestamp


\* C29: the command line built by executeOpenStudioCommand round-trips: split
\* the way a POSIX shell splits it (blanks separate words, double quotes
\* group, a backslash inside double quotes escapes), it yields the binary
\* path followed by exactly the original arguments, in order and unchanged,
\* one word per argument, empty strings and metacharacters included.
C29_CommandLineRoundTrips ==
    built # None =>
        ShellSplit(built.command) = <<openStudioBin>> \o built.args


\* C30: validateAndResolvePath is idempotent on accepted paths: when it
\* accepts a candidate for a base, applying it to the returned path with
\* the same base succeeds and returns that same path.
C30_ConfinerIdempotent ==
    (confined # None /\ confined.ok) =>
        validateAndResolvePath(confined.path, basePath) = confined

\* C30 witness: a candidate that is not yet in canonical form has been
\* accepted, and its canonical path is accepted again.
C30_Witness ==
    /\ confined # None
    /\ confined.ok
    /\ confined.path # inputPath
    /\ basePath = <<"m">>
    /\ validateAndResolvePath(confined.path, basePath).ok


\* C31: cancelled is a terminal job status: no step of the router or of a
\* background run takes a job that is cancelled to running or completed.
C31_CancelledIsTerminal ==
    [][\A id \in JobIds :
          simulationJobs[id].status = "cancelled" =>
              simulationJobs'[id].status \notin {"running", "completed"}]_vars

\* C32: a deleted job never reappears: an id that was handed out and has no
\* entry in the job map has none in the next state either.
C32_DeletedJobStaysAbsent ==
    [][\A id \in JobIds :
          (id < nextJobId /\ simulationJobs[id].status = "absent") =>
              simulationJobs'[id].status = "absent"]_vars


\* C33: a job whose status is completed has progress 100, a completedAt
\* time and results; and GET /:id/results sends results only for a job it
\* read as completed, and fails with a ValidationError for a job of any
\* other status.
C33_CompletedJobHasResults ==
    /\ \A id \in JobIds :
          simulationJobs[id].status = "completed" =>
              /\ simulationJobs[id].progress = 100
              /\ simulationJobs[id].completedAt
              /\ simulationJobs[id].results
    /\ response.op = "results" =>
          /\ response.results <=> response.seen = "completed"
          /\ response.results => (response.error = "none" /\ response.code = 200)
          /\ response.seen \in {"pending", "running", "cancelled", "failed"}
                => response.error = "ValidationError"

\* C33 witness: the results of a completed job have been sent.
C33_Witness ==
    /\ response.op = "results"
    /\ response.results
    /\ simulationJobs[response.id].status = "completed"
    /\ simulationJobs[response.id].progress = 100

\* A cancel request was answered in this step.
CancelResponded == response'.op = "cancel" /\ response' # response

\* C34: POST /:id/cancel on a completed, failed or cancelled job fails with
\* a ValidationError and leaves the stored jobs unchanged; on an unknown id
\* it fails with NotFoundError and changes no job; a pending or running job,
\* and no other, is changed to cancelled with a completedAt time.
C34_CancelOnlyPendingOrRunning ==
    [][CancelResponded =>
          LET job == simulationJobs[response'.id]
          IN  /\ response'.seen = job.status
              /\ job.status = "absent" =>
                    /\ response'.error = "NotFoundError"
                    /\ simulationJobs' = simulationJobs
              /\ job.status \in {"completed", "failed", "cancelled"} =>
                    /\ response'.error = "ValidationError"
                    /\ simulationJobs' = simulationJobs
              /\ job.status \in {"pending", "running"} =>
                    /\ response'.error = "none"
                    /\ simulationJobs' =
                          [simulationJobs EXCEPT ![response'.id] =
                              [job EXCEPT !.status = "cancelled", !.completedAt = TRUE]]
              /\ \A s \in {"completed", "failed", "cancelled"} : CancelRefused(s)]_vars

\* C34 witness: cancel requests have been refused for a completed job, and
\* a running job has been cancelled.
C34_Witness ==
    /\ response.op = "cancel"
    /\ response.error = "ValidationError"
    /\ response.seen = "completed"
    /\ \E id \in JobIds :
          /\ simulationJobs[id].status = "cancelled"
          /\ simulationJobs[id].completedAt
          /\ runners[id].pc = "ended"


\* The last two calls that settled: a start that rejected, then a stop that
\* completed, with no call in progress.
StoppedAfterFailedStart ==
    /\ app.startPc = "idle"
    /\ app.stopPc = "idle"
    /\ Len(app.log) >= 2
    /\ app.log[Len(app.log) - 1] = [call |-> "start", how |-> "rejected"]
    /\ app.log[Len(app.log)].call = "stop"
    /\ app.log[Len(app.log)].how \in {"resolved", "returned"}

\* C35: the application never leaks a running server: when start() has
\* rejected and a subsequent stop() has completed, neither the Express
\* server nor the MCP stdio server is running.
C35_NoServerLeftRunning ==
    StoppedAfterFailedStart => (~app.express /\ ~app.mcp)


\* What retry has done: the calls of fn, their settlements, the sleeps.
RetryEvents(kind) ==
    SelectSeq(retrying.events, LAMBDA e : e.ev = kind)

\* The settlement of the last attempt made.
LastSettlement == RetryEvents("settle")[Len(RetryEvents("settle"))].v

\* fn is called at most maxAttempts times, one call at a time; the first
\* attempt that succeeds ends retry with its value; the sleeps last delay
\* and come only between a failed attempt and the next attempt.
RetryAttemptsAndSleeps ==
    /\ Len(RetryEvents("call")) <= retrying.maxAttempts
    /\ Len(RetryEvents("call")) - Len(RetryEvents("settle")) \in {0, 1}
    /\ Len(RetryEvents("sleep")) < retrying.maxAttempts
    /\ \A k \in 1..Len(retrying.events) :
          LET e == retrying.events[k]
          IN  /\ (e.ev = "call" /\ k < Len(retrying.events))
                    => retrying.events[k + 1].ev = "settle"
              /\ (e.ev = "settle" /\ e.v.how = "resolved") =>
                    /\ k = Len(retrying.events)
                    /\ retrying.pc = "done"
                    /\ retrying.result = e.v
              /\ e.ev = "sleep" =>
                    /\ e.v = retrying.delay
                    /\ retrying.events[k - 1].ev = "settle"
                    /\ retrying.events[k - 1].v.how = "rejected"
                    /\ k < Len(retrying.events) => retrying.events[k + 1].ev = "call"
                    /\ retrying.pc = "done" => k < Len(retrying.events)

\* retry has rejected: every attempt was made and failed.
RetryRejected == retrying # None /\ retrying.pc = "done" /\ retrying.result.how = "rejected"

C37_ParserOutputAlwaysValid ==
    parsed # None =>
        /\ parsed.ok
        /\ parsed.buildingType \in ValidBuildingTypes
        /\ Len(parsed.location) > 0
        /\ parsed.floorArea >= 100
        /\ parsed.floorArea <= 1000000
        /\ validateBuildingParameters(parsed).isValid

=============================================================================
